---- MODULE Spec2Model ----
(***************************************************************************)
(* Model of ClawPhD's tool layer: the path resolver and payload extraction *)
(* helpers of clawphd/agent/tools/autopage.py, the helpers and tools of    *)
(* clawphd/agent/tools/paperbanana.py and the providers of                 *)
(* clawphd/agent/tools/paperbanana_providers.py.                           *)
(*                                                                         *)
(* Texts are sequences of tokens, paths are sequences of component names;  *)
(* each subsystem has its own variables and its own specification, and a   *)
(* specification leaves the other subsystems' variables at their idle      *)
(* values.                                                                 *)
(***************************************************************************)
EXTENDS Integers, Sequences, FiniteSets, TLC

VARIABLES
    rp_path,      \* _resolve_path: the path argument
    rp_allowed,   \* _resolve_path: the allowed_dir argument (NoDir or a path)
    rp_result,    \* _resolve_path: what the call did (returned / raised)
    ex_text,      \* payload extraction: the response argument
    ex_fn,        \* payload extraction: the helper applied last
    ex_result,    \* payload extraction: what the helper did (returned / raised)
    rc_pc,        \* _run_code: where the current call stands
    rc_calls,     \* _run_code: calls made so far (the current one included)
    rc_child,     \* _run_code: the child process of the current call
    rc_result,    \* _run_code: what the current call did (returned / raised)
    fs_tmp,       \* file system: the temporary source files that exist, by call
    fs_out,       \* file system: the declared output file (0 absent, else the call that wrote it)
    tl_calls,     \* tools: execute calls made so far
    tl_call,      \* tools: the last execute call (tool, arguments, configuration)
    tl_result,    \* tools: what the last execute call did (returned / raised)
    tl_log,       \* tools: the file system accesses and provider requests of the last execute call, in order
    fs,           \* file system: the paths that exist
    gi_counter,   \* GenerateImageTool._counter
    rg_tools,     \* ToolRegistry: the names of the registered tools
    rg_inst,      \* ToolRegistry: the registered tools, as <<name, instance>>
    rg_reg,       \* ToolRegistry: what the last register call did (ok / error)
    rg_calls,     \* ToolRegistry: execute calls made so far
    rg_call,      \* ToolRegistry: the last execute call (name, arguments)
    rg_invoked,   \* ToolRegistry: whether the last call invoked the tool operation
    rg_result,    \* ToolRegistry: what the last execute call did (returned / raised)
    lp_task,      \* event loop: the tool call each task runs and where it stands
    lp_owner,     \* event loop: the task that holds the loop thread, 0 when none
    gn_task,      \* GenerateImageTool: the execute calls in flight on one instance
    gn_files,     \* GenerateImageTool: the call whose image each written file holds
    gn_config,    \* GenerateImageTool: the providers the instance was built with
    rs_index,     \* ReferenceStore: what index.json holds on disk
    rs_examples,  \* ReferenceStore._examples
    rs_loaded,    \* ReferenceStore._loaded
    rs_reads,     \* ReferenceStore: times index.json was opened and read
    rs_calls,     \* ReferenceStore: accessor calls made so far
    rs_first,     \* ReferenceStore: what the first accessor call found on disk
    rs_result,    \* ReferenceStore: what the last accessor call did
    cq_data,      \* critique_image: the JSON object the response parsed to
    cq_result,    \* critique_image: the report returned for it
    mt_tags,      \* match_template: the templates of tags.json, in file order
    mt_req,       \* match_template: the value requested of each feature (None: not specified)
    mt_top_k,     \* match_template: the top_k argument
    mt_result     \* match_template: the candidates returned

pathVars == <<rp_path, rp_allowed, rp_result>>
extractVars == <<ex_text, ex_fn, ex_result>>
runVars == <<rc_pc, rc_calls, rc_child, rc_result, fs_tmp, fs_out>>
toolVars == <<tl_calls, tl_call, tl_result, tl_log, fs, gi_counter>>
regVars == <<rg_tools, rg_inst, rg_reg, rg_calls, rg_call, rg_invoked, rg_result>>
loopVars == <<lp_task, lp_owner>>
genVars == <<gn_task, gn_files, gn_config>>
storeVars == <<rs_index, rs_examples, rs_loaded, rs_reads, rs_calls, rs_first, rs_result>>
critVars == <<cq_data, cq_result>>
matchVars == <<mt_tags, mt_req, mt_top_k, mt_result>>
vars == <<pathVars, extractVars, runVars, toolVars, regVars, loopVars, genVars,
          storeVars,
        critVars,
        matchVars>>

notPath == <<extractVars, runVars, toolVars, regVars, loopVars, genVars, storeVars,
        critVars,
        matchVars>>
notExtract == <<pathVars, runVars, toolVars, regVars, loopVars, genVars, storeVars,
        critVars,
        matchVars>>
notRun == <<pathVars, extractVars, toolVars, regVars, loopVars, genVars, storeVars,
        critVars,
        matchVars>>
notTools == <<pathVars, extractVars, runVars, regVars, loopVars, genVars, storeVars,
        critVars,
        matchVars>>
notRegistry == <<pathVars, extractVars, runVars, loopVars, genVars, storeVars,
        critVars,
        matchVars>>
notLoop == <<pathVars, extractVars, runVars, toolVars, regVars, genVars, storeVars,
        critVars,
        matchVars>>
notGen == <<pathVars, extractVars, runVars, regVars, loopVars, storeVars,
            tl_calls, tl_call, tl_result, tl_log,
        critVars,
        matchVars>>
notStore == <<pathVars, extractVars, runVars, toolVars, regVars, loopVars, genVars,
        critVars,
        matchVars>>
notCritique == <<pathVars, extractVars, runVars, toolVars, regVars, loopVars, genVars,
                 storeVars,
        matchVars>>
notMatch == <<pathVars, extractVars, runVars, toolVars, regVars, loopVars, genVars,
              storeVars, critVars>>

None == "None"
\* allowed_dir=None
NoDir == [kind |-> "None"]
NoResult == [kind |-> "none"]

\* ------------------------------------------------------------------ bounds
MaxSegs == 3
MaxTextLen == 6
MaxRuns == 2
MaxToolCalls == 1
MaxRegCalls == 1
MaxTasks == 2
MaxIds == 3
MaxManifest == 2
MaxStoreCalls == 3
MaxInstances == 2
MaxSuggestions == 2
MaxTemplates == 3
MaxTopK == 3

\* ----------------------------------------------------------- sequence helpers
SeqsUpTo(S, n) == UNION {[1..k -> S] : k \in 0..n}

StartsWith(s, pre) ==
    /\ Len(pre) <= Len(s)
    /\ SubSeq(s, 1, Len(pre)) = pre

\* ======================================================================
\* Path Resolver: autopage._resolve_path
\* ======================================================================

\* Component names of the modelled file system and their spelling.
Names == {"ws", "ws2", "etc", "f", "lnk", "home"}

Chars(name) ==
    CASE name = "ws"   -> <<"w", "s">>
      [] name = "ws2"  -> <<"w", "s", "2">>
      [] name = "etc"  -> <<"e", "t", "c">>
      [] name = "f"    -> <<"f">>
      [] name = "lnk"  -> <<"l", "n", "k">>
      [] name = "home" -> <<"h", "o", "m", "e">>
      [] OTHER         -> <<name>>

\* The process working directory and the user home (absolute, canonical).
Cwd == <<"ws">>
Home == <<"home">>

\* Symbolic links of the file system: /ws/lnk points to /etc.
SymlinkFrom == <<"ws", "lnk">>
SymlinkTo == <<"etc">>

\* str(Path): "/" for the root, else "/" + name for every component.
RECURSIVE PathStr(_)
PathStr(p) ==
    IF p = <<>> THEN <<>>
    ELSE <<"/">> \o Chars(Head(p)) \o PathStr(Tail(p))

StrOf(p) == IF p = <<>> THEN <<"/">> ELSE PathStr(p)

\* Path.expanduser(): a leading "~" component is replaced by the home directory.
ExpandUser(path) ==
    IF ~path.abs /\ path.segs # <<>> /\ Head(path.segs) = "~"
    THEN [abs |-> TRUE, segs |-> Home \o Tail(path.segs)]
    ELSE path

\* Path.resolve(): one component at a time, "." dropped, ".." popping,
\* a symbolic link replaced by its target.
RECURSIVE Walk(_, _)
Walk(stack, segs) ==
    IF segs = <<>> THEN stack
    ELSE LET s == Head(segs)
             pushed == stack \o <<s>>
             next == IF s = "." THEN stack
                     ELSE IF s = ".." THEN
                          (IF stack = <<>> THEN <<>>
                           ELSE SubSeq(stack, 1, Len(stack) - 1))
                     ELSE IF pushed = SymlinkFrom THEN SymlinkTo
                     ELSE pushed
         IN Walk(next, Tail(segs))

Resolve(path) ==
    LET e == ExpandUser(path)
    IN Walk(IF e.abs THEN <<>> ELSE Cwd, e.segs)

AbsPath(p) == [abs |-> TRUE, segs |-> p]

\* The file a path names when it is opened as it stands (no expanduser).
OsPath(path) == Walk(IF path.abs THEN <<>> ELSE Cwd, path.segs)

\* The containment test of line 23: a prefix test on the two strings.
OutsideAllowed(resolved, allowedResolved) ==
    ~StartsWith(StrOf(resolved), StrOf(allowedResolved))

ResolvePath(path, allowed_dir) ==
    LET resolved == Resolve(path)
    IN IF allowed_dir # NoDir /\ OutsideAllowed(resolved, Resolve(allowed_dir))
       THEN [kind |-> "PermissionError", arg |-> path, allowed_dir |-> allowed_dir]
       ELSE [kind |-> "ok", path |-> resolved]

\* True containment in a directory tree: the root or a descendant of it.
IsWithin(p, root) == StartsWith(p, root)

Segments == Names \cup {"..", ".", "~"}
PathInputs == [abs : BOOLEAN, segs : SeqsUpTo(Segments \ {"home", "."}, MaxSegs)]
AllowedRoots == {AbsPath(<<"ws">>), AbsPath(<<"ws", "f">>)}

PathInit ==
    /\ rp_path \in PathInputs
    /\ rp_allowed \in AllowedRoots \cup {NoDir}
    /\ rp_result = NoResult

PathIdle ==
    /\ rp_path = AbsPath(<<>>)
    /\ rp_allowed = NoDir
    /\ rp_result = NoResult

ResolvePathCall ==
    /\ rp_result = NoResult
    /\ rp_result' = ResolvePath(rp_path, rp_allowed)
    /\ UNCHANGED <<rp_path, rp_allowed>>
    /\ UNCHANGED notPath

PathNext == ResolvePathCall

\* ======================================================================
\* Response Normalizer: _extract_python / _extract_json (paperbanana.py)
\* and _extract_json (autopage.py)
\* ======================================================================

\* Tokens of a provider response: FENCE is the three-backquote marker, "json" and "python" the
\* tag words, "sp" white space, "x" any other character.
FENCE == "fence"
Tokens == {FENCE, "json", "python", "sp", "x"}
Texts == SeqsUpTo(Tokens, MaxTextLen)

\* str.strip()
RECURSIVE LStrip(_)
LStrip(s) == IF s # <<>> /\ Head(s) = "sp" THEN LStrip(Tail(s)) ELSE s

RECURSIVE RStrip(_)
RStrip(s) ==
    IF s # <<>> /\ s[Len(s)] = "sp" THEN RStrip(SubSeq(s, 1, Len(s) - 1)) ELSE s

Strip(s) == RStrip(LStrip(s))

\* str.find(sub, start): the least 1-based position >= start where sub
\* occurs, 0 when there is none (-1 in Python).
Find(s, sub, start) ==
    LET hits == {i \in start..(Len(s) - Len(sub) + 1) :
                    SubSeq(s, i, i + Len(sub) - 1) = sub}
    IN IF hits = {} THEN 0
       ELSE CHOOSE i \in hits : \A j \in hits : i <= j

Contains(s, sub) == Find(s, sub, 1) # 0

\* response[start:end] for 1-based start (first kept) and end (first dropped).
Slice(s, start, end) == SubSeq(s, start, end - 1)

\* The fenced body for an opening marker open, located with str.index:
\* ValueError when no closing fence follows.
IndexBody(text, open) ==
    LET start == Find(text, open, 1) + Len(open)
        end == Find(text, <<FENCE>>, start)
    IN IF end = 0 THEN [kind |-> "ValueError"]
       ELSE [kind |-> "ok", text |-> Strip(Slice(text, start, end))]

\* The same, located with str.find: to the end of the text when no closing
\* fence follows.
FindBody(text, open) ==
    LET start == Find(text, open, 1) + Len(open)
        end == Find(text, <<FENCE>>, start)
    IN [kind |-> "ok",
        text |-> Strip(Slice(text, start, IF end # 0 THEN end ELSE Len(text) + 1))]

\* paperbanana._extract_python
ExtractPython(response) ==
    IF Contains(response, <<FENCE, "python">>)
    THEN IndexBody(response, <<FENCE, "python">>)
    ELSE IF Contains(response, <<FENCE>>)
    THEN IndexBody(response, <<FENCE>>)
    ELSE [kind |-> "ok", text |-> Strip(response)]

ExtractJson_FirstFenceWins(response) ==
    LET text == Strip(response)
    IN IF Contains(text, <<FENCE>>) THEN IndexBody(text, <<FENCE>>)
       ELSE [kind |-> "ok", text |-> text]

\* paperbanana._extract_json
ExtractJson(response) ==
    LET text == Strip(response)
    IN IF Contains(text, <<FENCE, "json">>)
       THEN IndexBody(text, <<FENCE, "json">>)
       ELSE IF Contains(text, <<FENCE>>)
       THEN IndexBody(text, <<FENCE>>)
       ELSE [kind |-> "ok", text |-> text]

\* autopage._extract_json
AutopageExtractJson(response) ==
    LET text == Strip(response)
    IN IF Contains(text, <<FENCE, "json">>)
       THEN FindBody(text, <<FENCE, "json">>)
       ELSE IF Contains(text, <<FENCE>>)
       THEN FindBody(text, <<FENCE>>)
       ELSE [kind |-> "ok", text |-> text]

ExtractInit ==
    /\ ex_text \in Texts
    /\ ex_fn = None
    /\ ex_result = NoResult

ExtractIdle ==
    /\ ex_text = <<>>
    /\ ex_fn = None
    /\ ex_result = NoResult

ExtractPythonCall ==
    /\ ex_fn' = "paperbanana._extract_python"
    /\ ex_result' = ExtractPython(ex_text)
    /\ UNCHANGED ex_text
    /\ UNCHANGED notExtract

ExtractJsonCall ==
    /\ ex_fn' = "paperbanana._extract_json"
    /\ ex_result' = ExtractJson(ex_text)
    /\ UNCHANGED ex_text
    /\ UNCHANGED notExtract

AutopageExtractJsonCall ==
    /\ ex_fn' = "autopage._extract_json"
    /\ ex_result' = AutopageExtractJson(ex_text)
    /\ UNCHANGED ex_text
    /\ UNCHANGED notExtract

ExtractNext ==
    \/ ExtractPythonCall
    \/ ExtractJsonCall
    \/ AutopageExtractJsonCall

\* ======================================================================
\* Sandboxed Code Runner: paperbanana._run_code
\* ======================================================================

\* timeout=60 of subprocess.run, in seconds
Timeout == 60

Returned(success, msg) == [kind |-> "return", success |-> success, msg |-> msg]
Raised(exc) == [kind |-> "raise", exc |-> exc]

TimedOutMsg == <<"Code execution timed out after 60 seconds">>
NoOutputMsg == <<"Code ran successfully but output file was not created">>
UnexpectedMsg(exc) == <<"Unexpected error: ", exc>>

\* "\n\n".join(error_details), "Unknown error" when both streams are empty
ErrorDetails(stdout, stderr) ==
    LET o == IF stdout # <<>> THEN <<"STDOUT:\n">> \o stdout ELSE <<>>
        e == IF stderr # <<>> THEN <<"STDERR:\n">> \o stderr ELSE <<>>
    IN IF o = <<>> /\ e = <<>> THEN <<"Unknown error">>
       ELSE IF o # <<>> /\ e # <<>> THEN o \o <<"\n\n">> \o e
       ELSE o \o e

\* RunOutcome judging by the output file alone.
RunOutcome_IgnoresExitCode(returncode, stdout, stderr, outputExists) ==
    IF ~outputExists THEN Returned(FALSE, NoOutputMsg)
    ELSE Returned(TRUE, <<>>)

\* RunOutcome without the check that the output file exists.
RunOutcome_NoFileCheck(returncode, stdout, stderr, outputExists) ==
    IF returncode # 0 THEN Returned(FALSE, ErrorDetails(stdout, stderr))
    ELSE Returned(TRUE, <<>>)

\* Lines 460-475: the outcome for a child that exited.
RunOutcome(returncode, stdout, stderr, outputExists) ==
    IF returncode # 0 THEN Returned(FALSE, ErrorDetails(stdout, stderr))
    ELSE IF ~outputExists THEN Returned(FALSE, NoOutputMsg)
    ELSE Returned(TRUE, <<>>)

\* subprocess.run raises TimeoutExpired once the child has run for timeout.
TimeoutReached(elapsed) == elapsed >= Timeout

NoChild == [state |-> "none", elapsed |-> 0, returncode |-> 0,
            stdout |-> <<>>, stderr |-> <<>>]

Streams == {<<>>, <<"text">>}
ExitCodes == {0, 1}

RunInit ==
    /\ rc_pc = "idle"
    /\ rc_calls = 0
    /\ rc_child = NoChild
    /\ rc_result = NoResult
    /\ fs_tmp = {}
    /\ fs_out = 0

RunIdle == RunInit

\* _run_code is called; line 446 creates the parent directory of the output.
RunCodeBegin(mkdirOk) ==
    /\ rc_pc = "idle"
    /\ rc_calls < MaxRuns
    /\ rc_calls' = rc_calls + 1
    /\ rc_child' = NoChild
    /\ IF mkdirOk
       THEN rc_pc' = "mktemp" /\ rc_result' = NoResult
       ELSE rc_pc' = "done" /\ rc_result' = Raised("OSError")
    /\ UNCHANGED <<fs_tmp, fs_out>>
    /\ UNCHANGED notRun

\* Line 448: NamedTemporaryFile(delete=False) creates the temporary file.
CreateTemp(ok) ==
    /\ rc_pc = "mktemp"
    /\ IF ok
       THEN rc_pc' = "write" /\ fs_tmp' = fs_tmp \cup {rc_calls}
                             /\ UNCHANGED rc_result
       ELSE rc_pc' = "done" /\ rc_result' = Raised("OSError")
                            /\ UNCHANGED fs_tmp
    /\ UNCHANGED <<rc_calls, rc_child, fs_out>>
    /\ UNCHANGED notRun

\* Lines 449-450: the source text is written and the file closed; a failure
\* here leaves the with block by the exception, before the try statement.
WriteSource(ok) ==
    /\ rc_pc = "write"
    /\ IF ok
       THEN rc_pc' = "spawn" /\ UNCHANGED rc_result
       ELSE rc_pc' = "done" /\ rc_result' = Raised("OSError")
    /\ UNCHANGED <<rc_calls, rc_child, fs_tmp, fs_out>>
    /\ UNCHANGED notRun

\* Lines 453-458: subprocess.run starts the child; an exception of the spawn
\* is caught at line 481 and the finally clause unlinks the temporary file.
Spawn(ok) ==
    /\ rc_pc = "spawn"
    /\ IF ok
       THEN /\ rc_pc' = "running"
            /\ rc_child' = [NoChild EXCEPT !.state = "running"]
            /\ UNCHANGED <<rc_result, fs_tmp>>
       ELSE /\ rc_pc' = "done"
            /\ rc_result' = Returned(FALSE, UnexpectedMsg("OSError"))
            /\ fs_tmp' = fs_tmp \ {rc_calls}
            /\ UNCHANGED rc_child
    /\ UNCHANGED <<rc_calls, fs_out>>
    /\ UNCHANGED notRun

\* A second of the child running.
Tick ==
    /\ rc_pc = "running"
    /\ ~TimeoutReached(rc_child.elapsed)
    /\ rc_child' = [rc_child EXCEPT !.elapsed = @ + 1]
    /\ UNCHANGED <<rc_pc, rc_calls, rc_result, fs_tmp, fs_out>>
    /\ UNCHANGED notRun

\* The child writes the declared output file.
ChildWritesOutput ==
    /\ rc_pc = "running"
    /\ fs_out # rc_calls
    /\ fs_out' = rc_calls
    /\ UNCHANGED <<rc_pc, rc_calls, rc_child, rc_result, fs_tmp>>
    /\ UNCHANGED notRun

\* The child exits within the limit: lines 460-475, then the finally clause.
ChildExit(returncode, stdout, stderr) ==
    /\ rc_pc = "running"
    /\ ~TimeoutReached(rc_child.elapsed)
    /\ rc_child' = [rc_child EXCEPT !.state = "exited",
                                    !.returncode = returncode,
                                    !.stdout = stdout,
                                    !.stderr = stderr]
    /\ rc_result' = RunOutcome(returncode, stdout, stderr, fs_out # 0)
    /\ fs_tmp' = fs_tmp \ {rc_calls}
    /\ rc_pc' = "done"
    /\ UNCHANGED <<rc_calls, fs_out>>
    /\ UNCHANGED notRun

\* TimeoutExpire salvaging a partial result: success when the output file
\* is there at the timeout.
TimeoutExpire_Salvage ==
    /\ rc_pc = "running"
    /\ TimeoutReached(rc_child.elapsed)
    /\ rc_child' = [rc_child EXCEPT !.state = "killed"]
    /\ rc_result' = IF fs_out # 0 THEN Returned(TRUE, <<>>)
                    ELSE Returned(FALSE, TimedOutMsg)
    /\ fs_tmp' = fs_tmp \ {rc_calls}
    /\ rc_pc' = "done"
    /\ UNCHANGED <<rc_calls, fs_out>>
    /\ UNCHANGED notRun

\* The limit expires: subprocess.run kills the child and raises
\* TimeoutExpired, caught at line 477; then the finally clause.
TimeoutExpire ==
    /\ rc_pc = "running"
    /\ TimeoutReached(rc_child.elapsed)
    /\ rc_child' = [rc_child EXCEPT !.state = "killed"]
    /\ rc_result' = Returned(FALSE, TimedOutMsg)
    /\ fs_tmp' = fs_tmp \ {rc_calls}
    /\ rc_pc' = "done"
    /\ UNCHANGED <<rc_calls, fs_out>>
    /\ UNCHANGED notRun

\* The caller takes the result; the runner is ready for the next call.
RunCodeEnd ==
    /\ rc_pc = "done"
    /\ rc_calls < MaxRuns
    /\ rc_pc' = "idle"
    /\ UNCHANGED <<rc_calls, rc_child, rc_result, fs_tmp, fs_out>>
    /\ UNCHANGED notRun

RunNext ==
    \/ \E ok \in BOOLEAN : RunCodeBegin(ok)
    \/ \E ok \in BOOLEAN : CreateTemp(ok)
    \/ \E ok \in BOOLEAN : WriteSource(ok)
    \/ \E ok \in BOOLEAN : Spawn(ok)
    \/ Tick
    \/ ChildWritesOutput
    \/ \E rcode \in ExitCodes, so \in Streams, se \in Streams : ChildExit(rcode, so, se)
    \/ TimeoutExpire
    \/ RunCodeEnd

\* The run of a call, once begun, is not held up: the interpreter takes its
\* steps, the clock advances and the timeout of subprocess.run fires.
RunFairness ==
    /\ WF_vars(\E ok \in BOOLEAN : CreateTemp(ok))
    /\ WF_vars(\E ok \in BOOLEAN : WriteSource(ok))
    /\ WF_vars(\E ok \in BOOLEAN : Spawn(ok))
    /\ WF_vars(Tick)
    /\ WF_vars(TimeoutExpire)

\* ======================================================================
\* Tools: autopage.py (parse_paper, render_html, match_template,
\* review_html_visual, extract_table_html)
\* ======================================================================

\* What an execute call did: a returned text (tokens; the first token is the
\* start of the text) or an exception that left execute.
Ret(text) == [kind |-> "return", text |-> text]
Exc(e) == [kind |-> "raise", exc |-> e]

\* A file system access: the operation, the path and whether the path came
\* out of _resolve_path (or was derived from one that did).
Acc(op, p, resolved) == [op |-> op, path |-> p, resolved |-> resolved]

\* A request sent to a provider (the generate call of a VLM or of an image
\* generator), recorded among the accesses of the call.
Ask(provider) == Acc("ask", <<provider>>, TRUE)

\* The effect of an execute call: result, accesses, file system afterwards.
Out(res, log, fsAfter) == [res |-> res, log |-> log, fs |-> fsAfter]

\* An argument left out (None or "").
NoPath == [abs |-> FALSE, segs |-> <<>>]
Given(path) == path # NoPath

Workspace == <<"ws">>

Prefixes(p) == {SubSeq(p, 1, k) : k \in 0..Len(p)}
Parent(p) == IF p = <<>> THEN <<>> ELSE SubSeq(p, 1, Len(p) - 1)
\* mkdir(parents=True, exist_ok=True)
MkdirP(fsNow, p) == fsNow \cup Prefixes(p)

\* Path.suffix.lower() == ".pdf"
IsPdf(p) == p # <<>> /\ p[Len(p)] \in {"p.pdf", "gone.pdf"}

\* The file systems a call may start in: with and without templates/tags.json
\* in the workspace.
FsBase == {<<>>, <<"ws">>, <<"ws", "f">>, <<"ws", "p.pdf">>, <<"etc">>,
           <<"etc", "f">>, <<"etc", "p.pdf">>, <<"ws2">>, <<"ws2", "p.pdf">>}
WorkspaceTags == <<"ws", "templates", "tags.json">>
BuiltinTags == <<"pkg", "templates", "tags.json">>
FsWithTags == FsBase \cup Prefixes(WorkspaceTags)

\* A provider: not configured, raising, or answering with a text.
NoVlm == [kind |-> "none", exc |-> "", text |-> <<>>]
VlmRaises(e) == [kind |-> "raise", exc |-> e, text |-> <<>>]
VlmAnswers(t) == [kind |-> "text", exc |-> "", text |-> t]

\* Provider answers: "obj" is the text of a JSON object, "arr" of a JSON
\* array, "x" prose.
Responses ==
    {<<"obj">>, <<"arr">>, <<"x">>,
     <<FENCE, "json", "obj", FENCE>>,
     <<FENCE, "json", "obj">>,
     <<FENCE, "json", "x">>,
     <<FENCE, "obj", FENCE>>,
     <<"x", FENCE, "json", "sp", "obj", "sp", FENCE, "x">>}

Vlms == {NoVlm, VlmRaises("RuntimeError"), VlmRaises("JSONDecodeError")}
            \cup {VlmAnswers(t) : t \in Responses}

\* json.loads: the kind of value parsed, or JSONDecodeError.
JsonLoads(payload) ==
    IF payload = <<"obj">> THEN "object"
    ELSE IF payload = <<"arr">> THEN "array"
    ELSE "JSONDecodeError"

PermissionText == <<"Error", ": ", "Path is outside allowed directory">>

\* ParsePaperTool.execute
ParsePaper(pdf_path, output_dir, env, fsNow) ==
    IF env.fail = "fitz"
    THEN Out(Ret(<<"{", "status: error", "PyMuPDF is required">>), <<>>, fsNow)
    ELSE IF env.fail = "pymupdf4llm"
    THEN Out(Ret(<<"{", "status: error", "pymupdf4llm is required">>), <<>>, fsNow)
    ELSE
    LET r1 == ResolvePath(pdf_path, env.allowed)
    IN IF r1.kind = "PermissionError" THEN Out(Ret(PermissionText), <<>>, fsNow)
       ELSE
       LET pdf == r1.path
           log1 == <<Acc("exists", pdf, TRUE)>>
       IN IF pdf \notin fsNow
          THEN Out(Ret(<<"Error", ": File not found: ", "pdf_path">>), log1, fsNow)
          ELSE IF ~IsPdf(pdf)
          THEN Out(Ret(<<"Error", ": Expected a PDF file, got: ", "pdf.name">>), log1, fsNow)
          ELSE
          LET r2 == ResolvePath(
                        IF Given(output_dir) /\ output_dir.abs THEN output_dir
                        ELSE AbsPath(Workspace \o
                                 (IF Given(output_dir) THEN output_dir.segs
                                  ELSE <<"project_contents">>)),
                        env.allowed)
          IN IF r2.kind = "PermissionError" THEN Out(Ret(PermissionText), log1, fsNow)
             ELSE
             LET out == r2.path
                 fig_dir == out \o <<"figures">>
                 md_path == out \o <<"stem_content.md">>
                 json_path == out \o <<"stem_parsed.json">>
                 log2 == log1 \o <<Acc("mkdir", out, TRUE)>>
                 log3 == log2 \o <<Acc("mkdir", fig_dir, TRUE)>>
                 log4 == log3 \o <<Acc("read", pdf, TRUE)>>
                 log5 == log4 \o <<Acc("write", md_path, TRUE)>>
                 log6 == log5 \o <<Acc("read", pdf, TRUE), Acc("write", fig_dir, TRUE)>>
                 log7 == log6 \o <<Acc("write", json_path, TRUE)>>
                 fs3 == MkdirP(fsNow, fig_dir)
                 fs5 == fs3 \cup {md_path}
                 fs6 == fs5 \cup {json_path}
                 failed == Ret(<<"Error", " parsing paper: ", "e">>)
             IN IF env.fail = "mkdir" THEN Out(failed, log2, fsNow)
                ELSE IF env.fail = "parse" THEN Out(failed, log4, fs3)
                ELSE IF env.fail = "figures" THEN Out(failed, log6, fs5)
                ELSE Out(Ret(<<"{", "status: ok", "parse_paper">>), log7, fs6)

\* RenderHTMLTool.execute
RenderHTML(html_path, output_path, env, fsNow) ==
    LET r1 == ResolvePath(html_path, env.allowed)
    IN IF r1.kind = "PermissionError" THEN Out(Ret(PermissionText), <<>>, fsNow)
       ELSE
       LET html_file == r1.path
           log1 == <<Acc("exists", html_file, TRUE)>>
       IN IF html_file \notin fsNow
          THEN Out(Ret(<<"Error", ": HTML file not found: ", "html_path">>), log1, fsNow)
          ELSE
          LET r2 == ResolvePath(output_path, env.allowed)
              out_dir == Workspace \o <<"outputs", "renders">>
              explicit == Given(output_path)
              target == IF explicit THEN r2.path ELSE out_dir \o <<"stem_stamp.png">>
              log2 == IF explicit THEN log1
                      ELSE log1 \o <<Acc("mkdir", out_dir, FALSE)>>
              log3 == log2 \o <<Acc("mkdir", Parent(target), explicit)>>
              log4 == log3 \o <<Acc("read", html_file, TRUE),
                                Acc("write", target, explicit)>>
              fs3 == MkdirP(fsNow, Parent(target))
              failed == Ret(<<"Error", " rendering HTML: ", "e">>)
          IN IF explicit /\ r2.kind = "PermissionError"
             THEN Out(Ret(PermissionText), log1, fsNow)
             ELSE IF env.fail = "mkdir"
             THEN Out(failed, IF explicit THEN log3 ELSE log2, fsNow)
             ELSE IF env.fail = "playwright"
             THEN Out(Ret(<<"Error", ": Playwright is not installed.">>), log3, fs3)
             ELSE IF env.fail = "browser" THEN Out(failed, log3, fs3)
             ELSE Out(Ret(<<"{", "status: ok", "render_html">>), log4, fs3 \cup {target})

\* MatchTemplateTool._find_tags_json
FindTagsJson(fsNow) ==
    IF BuiltinTags \in fsNow THEN BuiltinTags
    ELSE IF WorkspaceTags \in fsNow THEN WorkspaceTags
    ELSE <<>>

FindTagsLog(fsNow) ==
    IF BuiltinTags \in fsNow THEN <<Acc("exists", BuiltinTags, FALSE)>>
    ELSE <<Acc("exists", BuiltinTags, FALSE), Acc("exists", WorkspaceTags, FALSE)>>

\* MatchTemplateTool.execute
MatchTemplate(tags_path, template_root, env, fsNow) ==
    LET r1 == ResolvePath(tags_path, env.allowed)
        explicit == Given(tags_path)
        tags_file == IF explicit THEN r1.path ELSE FindTagsJson(fsNow)
        log1 == IF explicit THEN <<>> ELSE FindTagsLog(fsNow)
        log2 == log1 \o <<Acc("exists", tags_file, explicit)>>
        log3 == log2 \o <<Acc("read", tags_file, explicit)>>
        r2 == ResolvePath(template_root, env.allowed)
    IN IF explicit /\ r1.kind = "PermissionError"
       THEN Out(Ret(PermissionText), <<>>, fsNow)
       ELSE IF ~explicit /\ tags_file = <<>>
       THEN Out(Ret(<<"Error", ": tags.json not found.">>), log1, fsNow)
       ELSE IF tags_file \notin fsNow
       THEN Out(Ret(<<"Error", ": tags file not found: ", "tags_file">>), log2, fsNow)
       ELSE IF env.fail = "tags"
       THEN Out(Ret(<<"Error", " matching templates: ", "e">>), log3, fsNow)
       ELSE IF Given(template_root) /\ r2.kind = "PermissionError"
       THEN Out(Ret(PermissionText), log3, fsNow)
       ELSE Out(Ret(<<"{", "status: ok", "match_template">>), log3, fsNow)

\* The part ReviewHTMLVisualTool.execute and ExtractTableHTMLTool.execute
\* share: provider check, path resolution, image load, provider request.
\* Gives the effect of an early return, or the answer of the provider.
LoadAndAsk(path, env, fsNow, notConfigured, notFound, failedPrefix) ==
    IF env.vlm.kind = "none" THEN [done |-> TRUE, out |-> Out(Ret(notConfigured), <<>>, fsNow)]
    ELSE
    LET r1 == ResolvePath(path, env.allowed)
    IN IF r1.kind = "PermissionError"
       THEN [done |-> TRUE, out |-> Out(Ret(PermissionText), <<>>, fsNow)]
       ELSE
       LET file == r1.path
           log1 == <<Acc("exists", file, TRUE)>>
           log2 == log1 \o <<Acc("read", file, TRUE)>>
           log3 == log2 \o <<Ask("vlm")>>
           failed == Ret(<<"Error", failedPrefix, "e">>)
       IN IF file \notin fsNow
          THEN [done |-> TRUE, out |-> Out(Ret(notFound), log1, fsNow)]
          ELSE IF env.fail = "pillow"
          THEN [done |-> TRUE,
                out |-> Out(Ret(<<"Error", ": Pillow is required">>), log1, fsNow)]
          ELSE IF env.fail = "image"
          THEN [done |-> TRUE, out |-> Out(failed, log2, fsNow)]
          ELSE IF env.vlm.kind = "raise"
          THEN [done |-> TRUE, out |-> Out(failed, log3, fsNow)]
          ELSE [done |-> FALSE, out |-> Out(Ret(env.vlm.text), log3, fsNow)]

\* ReviewHTMLVisualTool.execute
ReviewHTMLVisual(screenshot_path, env, fsNow) ==
    LET a == LoadAndAsk(screenshot_path, env, fsNow,
                        <<"Error", ": No VLM provider configured for visual review.">>,
                        <<"Error", ": Screenshot not found: ", "screenshot_path">>,
                        " reviewing screenshot: ")
    IN IF a.done THEN a.out
       ELSE
       LET payload == AutopageExtractJson(a.out.res.text).text
           parsed == JsonLoads(payload)
       IN IF parsed = "object"
          THEN Out(Ret(<<"{", "parsed">>), a.out.log, fsNow)
          ELSE IF parsed = "array"
          THEN Out(Ret(<<"[", "parsed">>), a.out.log, fsNow)
          ELSE Out(Ret(<<"{", "critic_suggestions", "payload", "priority: medium">>),
                   a.out.log, fsNow)

\* Lines 602-606: the fence at the start (with its tag) and at the end dropped.
Unfence(text) ==
    LET t == Strip(text)
        u == IF Contains(t, <<FENCE>>) /\ t # <<>> /\ Head(t) = FENCE
             THEN (IF Len(t) >= 2 /\ t[2] \in {"json", "python"}
                   THEN Strip(SubSeq(t, 3, Len(t)))
                   ELSE Strip(Tail(t)))
             ELSE t
    IN IF Contains(t, <<FENCE>>) /\ u # <<>> /\ u[Len(u)] = FENCE
       THEN Strip(SubSeq(u, 1, Len(u) - 1))
       ELSE u

\* ExtractTableHTMLTool.execute
ExtractTableHTML(image_path, env, fsNow) ==
    LET a == LoadAndAsk(image_path, env, fsNow,
                        <<"Error", ": No VLM provider configured for table extraction.">>,
                        <<"Error", ": Image not found: ", "image_path">>,
                        " extracting table HTML: ")
    IN IF a.done THEN a.out
       ELSE Out(Ret(Unfence(a.out.res.text)), a.out.log, fsNow)

\* ======================================================================
\* Tools: paperbanana.py (search_references, generate_image, critique_image)
\* ======================================================================

\* The reference store directory and the candidates of a loaded store.
StoreIndex == <<"refs", "index.json">>
Pool == <<"ref_1", "ref_2", "ref_3">>

\* A ranking provider: not configured, raising, or answering with a text that
\* is no JSON, a JSON array, a JSON object without selected_ids, or a JSON
\* object with the ids listed.
NoRank == [kind |-> "none", ids |-> <<>>]
RankKinds == {"raise", "nonjson", "array", "nofield"}
RankAnswers ==
    {NoRank} \cup {[kind |-> k, ids |-> <<>>] : k \in RankKinds}
        \cup {[kind |-> "ids", ids |-> i] : i \in SeqsUpTo({"ref_1", "ref_3", "ref_9"}, MaxIds)}

Range(q) == {q[i] : i \in 1..Len(q)}
FirstN_DropsFirst(q, n) == SubSeq(q, 2, IF n < Len(q) THEN n + 1 ELSE Len(q))

\* q[:n]
FirstN(q, n) == SubSeq(q, 1, IF n < Len(q) THEN n ELSE Len(q))

\* [id_map[eid] for eid in ids if eid in id_map]
RECURSIVE KnownIds(_, _)
KnownIds(ids, candidates) ==
    IF ids = <<>> THEN <<>>
    ELSE (IF Head(ids) \in Range(candidates) THEN <<Head(ids)>> ELSE <<>>)
             \o KnownIds(Tail(ids), candidates)

VlmRank_KeepsUnknown(rank, candidates, num_examples) ==
    IF rank.kind \in {"raise", "nonjson", "array"}
    THEN FirstN(candidates, num_examples)
    ELSE FirstN(rank.ids, num_examples)

\* SearchReferencesTool._vlm_rank
VlmRank(rank, candidates, num_examples) ==
    IF rank.kind \in {"raise", "nonjson", "array"}
    THEN FirstN(candidates, num_examples)
    ELSE FirstN(KnownIds(rank.ids, candidates), num_examples)

\* The result text lists the selected examples; asked tells whether
\* self._vlm.generate was called on the way.
Found(selected, asked) ==
    [kind |-> "return", text |-> <<"Found ", "n reference examples">>,
     selected |-> selected, asked |-> asked]

\* SearchReferencesTool.execute, with ReferenceStore.get_all
SearchReferences(num_examples, env, fsNow) ==
    IF env.store = "none"
    THEN Out(Ret(<<"Error", ": Reference store not configured.">>), <<>>, fsNow)
    ELSE
    LET log1 == <<Acc("exists", StoreIndex, FALSE)>>
        log2 == log1 \o <<Acc("read", StoreIndex, FALSE)>>
        candidates == IF env.store = "ok" THEN Pool ELSE <<>>
    IN IF env.store = "missing"
       THEN Out(Ret(<<"No reference examples available in the store.">>), log1, fsNow)
       ELSE IF env.store = "malformed"
       THEN Out(Exc("JSONDecodeError"), log2, fsNow)
       ELSE IF env.store = "empty"
       THEN Out(Ret(<<"No reference examples available in the store.">>), log2, fsNow)
       ELSE IF env.rank.kind # "none" /\ Len(candidates) > num_examples
       THEN Out(Found(VlmRank(env.rank, candidates, num_examples), TRUE),
                log2 \o <<Ask("vlm")>>, fsNow)
       ELSE Out(Found(FirstN(candidates, num_examples), FALSE), log2, fsNow)

\* GenerateImageTool(output_dir="outputs"), relative to the working directory
OutputDir == Cwd \o <<"outputs">>

AutoPath_NoSequence(prefix, counter) == OutputDir \o <<prefix \o ".png">>

AutoPath(prefix, counter) ==
    OutputDir \o <<prefix \o "_" \o ToString(counter) \o ".png">>

GenPath_AlwaysAuto(explicit, prefix, counter) == AutoPath(prefix, counter)

\* GenerateImageTool._resolve_path: the path, and the directory it creates
GenPath(explicit, prefix, counter) ==
    IF Given(explicit) THEN OsPath(explicit) ELSE AutoPath(prefix, counter)

\* GenerateImageTool._gen_diagram
GenDiagram(output_path, env, fsNow, counter) ==
    LET path == GenPath(output_path, "diagram", counter)
        log0 == <<Ask("image_gen")>>
        log1 == log0 \o <<Acc("mkdir", Parent(path), FALSE)>>
        log2 == log1 \o <<Acc("write", path, FALSE)>>
        fs1 == MkdirP(fsNow, Parent(path))
        failed == Ret(<<"Error", " generating diagram: ", "e">>)
    IN IF env.image_gen = "none"
       THEN Out(Ret(<<"Error", ": Image generation provider not configured.">>),
                <<>>, fsNow)
       ELSE IF env.image_gen = "raise" THEN Out(failed, log0, fsNow)
       ELSE IF env.fail = "mkdir" THEN Out(failed, log1, fsNow)
       ELSE IF env.fail = "save" THEN Out(failed, log2, fs1)
       ELSE Out(Ret(<<"Diagram saved to: ", "path">>), log2, fs1 \cup {path})

\* What _run_code may do for the tool: an outcome, or an exception of the
\* statements before its try statement.
RunResults ==
    {Returned(TRUE, <<>>), Returned(FALSE, NoOutputMsg),
     Returned(FALSE, TimedOutMsg), Raised("OSError")}

CodeResponses ==
    {<<FENCE, "python", "x", FENCE>>, <<FENCE, "python", "x">>, <<"x">>}

\* GenerateImageTool._gen_plot
GenPlot(output_path, env, fsNow, counter) ==
    LET path == GenPath(output_path, "plot", counter)
        log1 == <<Acc("mkdir", Parent(path), FALSE)>>
        logA == log1 \o <<Ask("vlm")>>
        log2 == logA \o <<Acc("mkdir", Parent(path), FALSE)>>
        log3 == log2 \o <<Acc("exists", path, FALSE)>>
        fs1 == MkdirP(fsNow, Parent(path))
        failed == Ret(<<"Error", " generating plot: ", "e">>)
    IN IF env.vlm.kind = "none"
       THEN Out(Ret(<<"Error", ": VLM provider not configured for plot code generation.">>),
                <<>>, fsNow)
       ELSE IF env.fail = "mkdir" THEN Out(Exc("OSError"), log1, fsNow)
       ELSE IF env.vlm.kind = "raise" THEN Out(failed, logA, fs1)
       ELSE IF ExtractPython(env.vlm.text).kind # "ok" THEN Out(failed, logA, fs1)
       ELSE IF env.run.kind = "raise" THEN Out(failed, log2, fs1)
       ELSE IF env.run.msg = TimedOutMsg
       THEN Out(Ret(<<"Error", ": Plot code execution failed.", "error_msg", "code">>),
                log2, fs1)
       ELSE IF env.run.success
       THEN Out(Ret(<<"Plot saved to: ", "path">>), log3, fs1 \cup {path})
       ELSE Out(Ret(<<"Error", ": Plot code execution failed.", "error_msg", "code">>),
                log3, fs1)

GenerateImage_ResolvesFirst(diagram_type, output_path, env, fsNow, counter) ==
    LET plot == diagram_type = "statistical_plot"
        path == GenPath(output_path, IF plot THEN "plot" ELSE "diagram", counter)
        o == IF plot THEN GenPlot(output_path, env, fsNow, counter)
             ELSE GenDiagram(output_path, env, fsNow, counter)
    IN Out(o.res, <<Acc("mkdir", Parent(path), FALSE)>> \o o.log,
           MkdirP(o.fs, Parent(path)))

\* GenerateImageTool.execute (the counter is incremented by the action)
GenerateImage(diagram_type, output_path, env, fsNow, counter) ==
    IF diagram_type = "statistical_plot"
    THEN GenPlot(output_path, env, fsNow, counter)
    ELSE GenDiagram(output_path, env, fsNow, counter)

\* CritiqueImageTool.execute
CritiqueImage(image_path, env, fsNow) ==
    LET file == OsPath(image_path)
        log1 == <<Acc("exists", file, FALSE)>>
        log2 == log1 \o <<Acc("read", file, FALSE)>>
        log3 == log2 \o <<Ask("vlm")>>
        failed == Ret(<<"Error", " during critique: ", "e">>)
        ex == ExtractJson(env.vlm.text)
        data == JsonLoads(ex.text)
    IN IF env.vlm.kind = "none"
       THEN Out(Ret(<<"Error", ": VLM provider not configured.">>), <<>>, fsNow)
       ELSE IF file \notin fsNow
       THEN Out(Ret(<<"Error", ": Image not found at ", "image_path">>), log1, fsNow)
       ELSE IF env.fail = "pillow"
       THEN Out(Ret(<<"Error", " loading image: ", "e">>), log1, fsNow)
       ELSE IF env.fail = "image"
       THEN Out(Ret(<<"Error", " loading image: ", "e">>), log2, fsNow)
       ELSE IF env.vlm.kind = "raise"
       THEN (IF env.vlm.exc = "JSONDecodeError"
             THEN Out(Exc("UnboundLocalError"), log3, fsNow)
             ELSE Out(failed, log3, fsNow))
       ELSE IF ex.kind # "ok" THEN Out(failed, log3, fsNow)
       ELSE IF data = "JSONDecodeError"
       THEN Out(Ret(<<"{", "suggestions", "resp", "needs_revision: false">>), log3, fsNow)
       ELSE IF data = "array" THEN Out(failed, log3, fsNow)
       ELSE Out(Ret(<<"{", "suggestions", "needs_revision", "revised_description">>),
                log3, fsNow)

\* ======================================================================
\* Tool calls
\* ======================================================================

ToolPathArgs ==
    {AbsPath(<<"ws", "p.pdf">>), AbsPath(<<"ws", "f">>), AbsPath(<<"ws", "gone.pdf">>),
     AbsPath(<<"etc", "p.pdf">>), AbsPath(<<"ws2", "p.pdf">>)}
OutArgs == {NoPath, AbsPath(<<"ws", "out">>), AbsPath(<<"etc", "out">>)}
TagsArgs == {NoPath, AbsPath(WorkspaceTags), AbsPath(<<"etc", "f">>)}
AllowedDirs == {NoDir, AbsPath(<<"ws">>)}
NumExamples == {1, 2, 5}

ToolsInit ==
    /\ tl_calls = 0
    /\ tl_call = [tool |-> None]
    /\ tl_result = NoResult
    /\ tl_log = <<>>
    /\ fs \in {FsBase, FsWithTags}
    /\ gi_counter = 0

ToolsIdle ==
    /\ tl_calls = 0
    /\ tl_call = [tool |-> None]
    /\ tl_result = NoResult
    /\ tl_log = <<>>
    /\ fs = FsBase
    /\ gi_counter = 0

\* The state after an execute call with effect o.
Called(call, o) ==
    /\ tl_calls < MaxToolCalls
    /\ tl_calls' = tl_calls + 1
    /\ tl_call' = call
    /\ tl_result' = o.res
    /\ tl_log' = o.log
    /\ fs' = o.fs
    /\ UNCHANGED notTools

\* parse_paper creating its output directory before it looks at the input.
ParsePaperCall_CreatesOutputFirst(pdf_path, output_dir, env) ==
    /\ LET o == ParsePaper(pdf_path, output_dir, env, fs)
           out == Workspace \o <<"project_contents">>
       IN Called([tool |-> "parse_paper", pdf_path |-> pdf_path,
                  output_dir |-> output_dir, env |-> env],
                 Out(o.res, <<Acc("mkdir", out, TRUE)>> \o o.log, MkdirP(o.fs, out)))
    /\ UNCHANGED gi_counter

ParsePaperCall(pdf_path, output_dir, env) ==
    /\ Called([tool |-> "parse_paper", pdf_path |-> pdf_path,
               output_dir |-> output_dir, env |-> env],
              ParsePaper(pdf_path, output_dir, env, fs))
    /\ UNCHANGED gi_counter

RenderHTMLCall(html_path, output_path, env) ==
    /\ Called([tool |-> "render_html", html_path |-> html_path,
               output_path |-> output_path, env |-> env],
              RenderHTML(html_path, output_path, env, fs))
    /\ UNCHANGED gi_counter

MatchTemplateCall(tags_path, template_root, env) ==
    /\ Called([tool |-> "match_template", tags_path |-> tags_path,
               template_root |-> template_root, env |-> env],
              MatchTemplate(tags_path, template_root, env, fs))
    /\ UNCHANGED gi_counter

ReviewHTMLVisualCall(screenshot_path, env) ==
    /\ Called([tool |-> "review_html_visual", screenshot_path |-> screenshot_path,
               env |-> env],
              ReviewHTMLVisual(screenshot_path, env, fs))
    /\ UNCHANGED gi_counter

ExtractTableHTMLCall(image_path, env) ==
    /\ Called([tool |-> "extract_table_html", image_path |-> image_path, env |-> env],
              ExtractTableHTML(image_path, env, fs))
    /\ UNCHANGED gi_counter

SearchReferencesCall(num_examples, env) ==
    /\ Called([tool |-> "search_references", num_examples |-> num_examples,
               env |-> env],
              SearchReferences(num_examples, env, fs))
    /\ UNCHANGED gi_counter

\* Line 180 increments the counter before anything else.
GenerateImageCall(diagram_type, output_path, env) ==
    /\ gi_counter' = gi_counter + 1
    /\ Called([tool |-> "generate_image", diagram_type |-> diagram_type,
               output_path |-> output_path, env |-> env],
              GenerateImage(diagram_type, output_path, env, fs, gi_counter + 1))

CritiqueImageCall(image_path, env) ==
    /\ Called([tool |-> "critique_image", image_path |-> image_path, env |-> env],
              CritiqueImage(image_path, env, fs))
    /\ UNCHANGED gi_counter

\* The configurations and faults of a call: one fault at most is injected.
ParseEnvs ==
    [allowed : AllowedDirs,
     fail : {"none", "fitz", "pymupdf4llm", "mkdir", "parse", "figures"}]
RenderEnvs ==
    [allowed : AllowedDirs, fail : {"none", "mkdir", "playwright", "browser"}]
MatchEnvs == [allowed : AllowedDirs, fail : {"none", "tags"}]
VlmFaults ==
    [vlm : Vlms, fail : {"none"}]
        \cup [vlm : {VlmAnswers(<<"obj">>)}, fail : {"pillow", "image"}]
VisionEnvs ==
    {[allowed |-> d, vlm |-> e.vlm, fail |-> e.fail] : d \in AllowedDirs, e \in VlmFaults}
SearchEnvs ==
    [store : {"missing", "malformed", "empty"}, rank : {NoRank}]
        \cup [store : {"none", "ok"}, rank : RankAnswers]
DiagramEnvs ==
    [image_gen : {"none", "raise"}, fail : {"none"}]
        \cup [image_gen : {"ok"}, fail : {"none", "mkdir", "save"}]
PlotEnvs ==
    [vlm : {NoVlm, VlmRaises("RuntimeError")}, run : {Returned(TRUE, <<>>)},
     fail : {"none"}]
        \cup [vlm : {VlmAnswers(<<"x">>)}, run : {Returned(TRUE, <<>>)}, fail : {"mkdir"}]
        \cup [vlm : {VlmAnswers(c) : c \in CodeResponses}, run : RunResults,
              fail : {"none"}]

ToolsNext ==
    \/ \E a \in ToolPathArgs, o \in OutArgs, env \in ParseEnvs :
          ParsePaperCall(a, o, env)
    \/ \E a \in ToolPathArgs, o \in OutArgs, env \in RenderEnvs :
          RenderHTMLCall(a, o, env)
    \/ \E a \in TagsArgs, r \in {NoPath, AbsPath(<<"ws", "templates">>), AbsPath(<<"etc">>)},
          env \in MatchEnvs :
          MatchTemplateCall(a, r, env)
    \/ \E a \in ToolPathArgs, env \in VisionEnvs : ReviewHTMLVisualCall(a, env)
    \/ \E a \in ToolPathArgs, env \in VisionEnvs : ExtractTableHTMLCall(a, env)
    \/ \E k \in NumExamples, env \in SearchEnvs : SearchReferencesCall(k, env)
    \/ \E o \in OutArgs, env \in DiagramEnvs : GenerateImageCall("methodology", o, env)
    \/ \E o \in OutArgs, env \in PlotEnvs : GenerateImageCall("statistical_plot", o, env)
    \/ \E a \in ToolPathArgs, env \in VlmFaults : CritiqueImageCall(a, env)

\* ======================================================================
\* Tool Registry: ToolRegistry.register / execute and the validation of
\* arguments against a tool schema
\* ======================================================================

\* Argument values: a JSON type with its string or numeric payload.
Absent == [t |-> "absent", s |-> "", n |-> 0]
StrVal(x) == [t |-> "string", s |-> x, n |-> 0]
IntVal(k) == [t |-> "integer", s |-> "", n |-> k]
BoolVal(b) == [t |-> "boolean", s |-> "", n |-> IF b THEN 1 ELSE 0]

\* A property of a schema: type, enum (empty: none), minimum and maximum.
Prop(type) == [type |-> type, enum |-> {}, ranged |-> FALSE, lo |-> 0, hi |-> 0]
EnumProp(type, values) == [Prop(type) EXCEPT !.enum = values]
RangeProp(type, lo, hi) == [Prop(type) EXCEPT !.ranged = TRUE, !.lo = lo, !.hi = hi]

SearchSchema_RequiresUndeclared ==
    [type |-> "object",
     order |-> <<"source_context", "caption", "num_examples">>,
     props |-> [source_context |-> Prop("string"),
                caption |-> Prop("string"),
                num_examples |-> RangeProp("integer", 1, 13)],
     required |-> <<"source_context", "query">>]

\* SearchReferencesTool.parameters
SearchSchema ==
    [type |-> "object",
     order |-> <<"source_context", "caption", "num_examples">>,
     props |-> [source_context |-> Prop("string"),
                caption |-> Prop("string"),
                num_examples |-> RangeProp("integer", 1, 13)],
     required |-> <<"source_context", "caption">>]

\* GenerateImageTool.parameters
GenerateSchema ==
    [type |-> "object",
     order |-> <<"description", "diagram_type", "raw_data", "output_path">>,
     props |-> [description |-> Prop("string"),
                diagram_type |-> EnumProp("string", {"methodology", "statistical_plot"}),
                raw_data |-> Prop("string"),
                output_path |-> Prop("string")],
     required |-> <<"description">>]

\* RenderHTMLTool.parameters
RenderSchema ==
    [type |-> "object",
     order |-> <<"html_path", "output_path", "full_page", "viewport_width",
                 "viewport_height">>,
     props |-> [html_path |-> Prop("string"),
                output_path |-> Prop("string"),
                full_page |-> Prop("boolean"),
                viewport_width |-> RangeProp("integer", 200, 5000),
                viewport_height |-> RangeProp("integer", 200, 5000)],
     required |-> <<"html_path">>]

\* ParsePaperTool.parameters
ParseSchema ==
    [type |-> "object",
     order |-> <<"pdf_path", "output_dir">>,
     props |-> [pdf_path |-> Prop("string"), output_dir |-> Prop("string")],
     required |-> <<"pdf_path">>]

\* MatchTemplateTool.parameters
MatchSchema ==
    [type |-> "object",
     order |-> <<"tags_path", "template_root", "top_k", "background_color",
                 "has_navigation", "has_hero_section", "title_color",
                 "page_density", "image_layout">>,
     props |-> [tags_path |-> Prop("string"),
                template_root |-> Prop("string"),
                top_k |-> RangeProp("integer", 1, 20),
                background_color |-> EnumProp("string", {"light", "dark"}),
                has_navigation |-> EnumProp("string", {"yes", "no"}),
                has_hero_section |-> EnumProp("string", {"yes", "no"}),
                title_color |-> EnumProp("string", {"pure", "colorful"}),
                page_density |-> EnumProp("string", {"spacious", "compact"}),
                image_layout |-> EnumProp("string", {"rotation", "parallelism"})],
     required |-> <<>>]

\* ReviewHTMLVisualTool.parameters
ReviewSchema ==
    [type |-> "object",
     order |-> <<"screenshot_path", "intent", "existing_html">>,
     props |-> [screenshot_path |-> Prop("string"),
                intent |-> Prop("string"),
                existing_html |-> Prop("string")],
     required |-> <<"screenshot_path">>]

\* ExtractTableHTMLTool.parameters
ExtractTableSchema ==
    [type |-> "object",
     order |-> <<"image_path", "theme_hint">>,
     props |-> [image_path |-> Prop("string"), theme_hint |-> Prop("string")],
     required |-> <<"image_path">>]

\* CritiqueImageTool.parameters
CritiqueSchema ==
    [type |-> "object",
     order |-> <<"image_path", "description", "source_context", "caption">>,
     props |-> [image_path |-> Prop("string"),
                description |-> Prop("string"),
                source_context |-> Prop("string"),
                caption |-> Prop("string")],
     required |-> <<"image_path", "description", "source_context", "caption">>]

\* The tool of the end-to-end property: requires {a: integer, b: string}.
EchoSchema ==
    [type |-> "object",
     order |-> <<"a", "b">>,
     props |-> [a |-> Prop("integer"), b |-> Prop("string")],
     required |-> <<"a", "b">>]

Schema(name) ==
    CASE name = "search_references" -> SearchSchema
      [] name = "generate_image" -> GenerateSchema
      [] name = "critique_image" -> CritiqueSchema
      [] name = "parse_paper" -> ParseSchema
      [] name = "render_html" -> RenderSchema
      [] name = "match_template" -> MatchSchema
      [] name = "review_html_visual" -> ReviewSchema
      [] name = "extract_table_html" -> ExtractTableSchema
      [] OTHER -> EchoSchema

\* The description attribute of each tool class (its opening words).
Description(name) ==
    CASE name = "search_references" -> "Search a curated set of academic reference diagrams."
      [] name = "generate_image" -> "Render an academic illustration from a detailed textual description."
      [] name = "critique_image" -> "Evaluate a generated diagram/plot against the original paper text."
      [] name = "parse_paper" -> "Parse an academic PDF into markdown"
      [] name = "render_html" -> "Render an HTML file to PNG using Playwright."
      [] name = "match_template" -> "Match style preferences against template tags and return top candidates."
      [] name = "review_html_visual" -> "Review a rendered webpage screenshot with a vision model"
      [] name = "extract_table_html" -> "Convert a table image into semantic HTML table markup."
      [] OTHER -> "Echo"

\* The tools the repository defines.
RepoTools ==
    {"search_references", "generate_image", "critique_image", "parse_paper",
     "render_html", "match_template", "review_html_visual", "extract_table_html"}

\* Tool.to_schema: the function-calling definition of a tool.
ToSchema(name) ==
    [type |-> "function",
     function |-> [name |-> name,
                   description |-> Description(name),
                   parameters |-> [type |-> Schema(name).type,
                                   properties |-> Schema(name).props,
                                   required |-> Schema(name).required]]]

RegTools == {"echo", "search_references", "generate_image", "render_html"}

TypeMatches(val, type) ==
    \/ val.t = type
    \/ type = "number" /\ val.t = "integer"

\* The violation of one present property, "ok" when there is none.
PropViolation(spec, val) ==
    IF ~TypeMatches(val, spec.type) THEN "type"
    ELSE IF spec.enum # {} /\ val.s \notin spec.enum THEN "enum"
    ELSE IF spec.ranged /\ val.n < spec.lo THEN "minimum"
    ELSE IF spec.ranged /\ val.n > spec.hi THEN "maximum"
    ELSE "ok"

NoViolation == [prop |-> "", reason |-> "ok"]

\* The first required property that is missing.
RECURSIVE FirstMissing(_, _)
FirstMissing(required, args) ==
    IF required = <<>> THEN NoViolation
    ELSE IF args[Head(required)] = Absent
    THEN [prop |-> Head(required), reason |-> "missing"]
    ELSE FirstMissing(Tail(required), args)

\* The first present property whose value violates its declaration.
RECURSIVE FirstBad(_, _, _)
FirstBad(order, props, args) ==
    IF order = <<>> THEN NoViolation
    ELSE LET p == Head(order)
             v == IF args[p] = Absent THEN "ok" ELSE PropViolation(props[p], args[p])
         IN IF v # "ok" THEN [prop |-> p, reason |-> v]
            ELSE FirstBad(Tail(order), props, args)

Validate_RequiredOnly(schema, args) == FirstMissing(schema.required, args)

\* Step 2 of execute: the first violation short-circuits.
Validate(schema, args) ==
    LET m == FirstMissing(schema.required, args)
    IN IF m # NoViolation THEN m
       ELSE FirstBad(schema.order, schema.props, args)

InvalidText(v) == <<"Invalid parameters", ": ", v.prop, v.reason>>
NotFoundText(name) == <<"Error", ": Tool not found: ", name>>
ExecErrorText(e) == <<"Error", ": ", e>>

Guarded_Propagates(res) == res

\* Step 3 of execute: what the caller gets for the outcome of the operation.
Guarded(res) ==
    IF res.kind = "raise" THEN Ret(ExecErrorText(res.exc)) ELSE res

\* The echo tool: its defined success text, or any misbehaviour.
EchoSuccess == <<"echo ok">>
Echo(env, fsNow) ==
    IF env.fail = "raise" THEN Out(Exc("RuntimeError"), <<>>, fsNow)
    ELSE Out(Ret(EchoSuccess), <<>>, fsNow)

ArgOr(args, p, default) == IF args[p] = Absent THEN default ELSE args[p]

\* The operation of a registered tool on validated arguments.
ToolOp(name, args, env, fsNow, counter) ==
    CASE name = "search_references" ->
             SearchReferences(ArgOr(args, "num_examples", IntVal(5)).n, env, fsNow)
      [] name = "generate_image" ->
             GenerateImage(ArgOr(args, "diagram_type", StrVal("methodology")).s,
                           NoPath, env, fsNow, counter)
      [] name = "render_html" ->
             RenderHTML(AbsPath(<<"ws", "f">>), NoPath, env, fsNow)
      [] OTHER -> Echo(env, fsNow)

RegistryInit ==
    /\ rg_tools = {}
    /\ rg_inst = {}
    /\ rg_reg = None
    /\ rg_calls = 0
    /\ rg_call = [name |-> None]
    /\ rg_invoked = FALSE
    /\ rg_result = NoResult

RegistryIdle == RegistryInit

\* ToolRegistry.register
Register_Overwrites(name, inst) ==
    /\ rg_tools' = rg_tools \cup {name}
    /\ rg_inst' = {p \in rg_inst : p[1] # name} \cup {<<name, inst>>}
    /\ rg_reg' = "ok"
    /\ UNCHANGED <<rg_calls, rg_call, rg_invoked, rg_result>>
    /\ UNCHANGED toolVars
    /\ UNCHANGED notRegistry

\* ToolRegistry.register: a name already registered is rejected with an
\* error and the earlier tool stays; inst tells two tools of one name apart.
Register(name, inst) ==
    /\ IF name \in rg_tools
       THEN /\ rg_reg' = "error"
            /\ UNCHANGED <<rg_tools, rg_inst>>
       ELSE /\ rg_tools' = rg_tools \cup {name}
            /\ rg_inst' = rg_inst \cup {<<name, inst>>}
            /\ rg_reg' = "ok"
    /\ UNCHANGED <<rg_calls, rg_call, rg_invoked, rg_result>>
    /\ UNCHANGED toolVars
    /\ UNCHANGED notRegistry

\* ToolRegistry.execute for a name that is not registered (step 1).
ExecuteUnknown(name, args) ==
    /\ name \notin rg_tools
    /\ rg_calls < MaxRegCalls
    /\ rg_calls' = rg_calls + 1
    /\ rg_call' = [name |-> name, known |-> FALSE, args |-> args]
    /\ rg_invoked' = FALSE
    /\ rg_result' = Ret(NotFoundText(name))
    /\ UNCHANGED <<rg_tools, rg_inst, rg_reg>>
    /\ UNCHANGED toolVars
    /\ UNCHANGED notRegistry

\* ToolRegistry.execute for a registered tool (steps 2 and 3), the effects of
\* the tool operation on the file system and on the tool included.
Execute(name, args, env) ==
    /\ name \in rg_tools
    /\ rg_calls < MaxRegCalls
    /\ rg_calls' = rg_calls + 1
    /\ rg_call' = [name |-> name, known |-> TRUE, args |-> args]
    /\ UNCHANGED <<rg_tools, rg_inst, rg_reg>>
    /\ LET v == Validate(Schema(name), args)
           counter == IF name = "generate_image" THEN gi_counter + 1 ELSE gi_counter
           o == ToolOp(name, args, env, fs, counter)
       IN IF v # NoViolation
          THEN /\ rg_invoked' = FALSE
               /\ rg_result' = Ret(InvalidText(v))
               /\ UNCHANGED toolVars
          ELSE /\ rg_invoked' = TRUE
               /\ rg_result' = Guarded(o.res)
               /\ tl_calls' = tl_calls + 1
               /\ tl_call' = [tool |-> name, env |-> env]
               /\ tl_result' = o.res
               /\ tl_log' = o.log
               /\ fs' = o.fs
               /\ gi_counter' = counter
    /\ UNCHANGED notRegistry

\* The arguments of a call, by tool: every property absent, well-formed or
\* violating its declaration.
EchoArgs == [a : {Absent, IntVal(1), StrVal("x")}, b : {Absent, StrVal("x"), IntVal(1)}]
SearchArgs ==
    [source_context : {Absent, StrVal("x")},
     caption : {Absent, StrVal("x"), IntVal(1)},
     num_examples : {Absent, IntVal(0), IntVal(2), IntVal(14), StrVal("x")}]
DiagramArgs ==
    [description : {Absent, StrVal("x"), IntVal(1)},
     diagram_type : {Absent, StrVal("methodology"), StrVal("bogus")},
     raw_data : {Absent}, output_path : {Absent}]
PlotArgs ==
    [description : {Absent, StrVal("x")},
     diagram_type : {StrVal("statistical_plot")},
     raw_data : {Absent, StrVal("x")}, output_path : {Absent}]
RenderArgs ==
    [html_path : {Absent, StrVal("x")},
     output_path : {Absent},
     full_page : {Absent, BoolVal(TRUE), StrVal("x")},
     viewport_width : {Absent, IntVal(199), IntVal(1600), IntVal(5001)},
     viewport_height : {Absent, IntVal(1200)}]

\* The environments a tool operation can meet, by tool; of the ranking
\* answers the registry's calls meet those naming at most one id.
ToolEnvs(name, args) ==
    CASE name = "search_references" -> {e \in SearchEnvs : Len(e.rank.ids) <= 1}
      [] name = "generate_image" ->
             IF ArgOr(args, "diagram_type", StrVal("methodology")).s = "statistical_plot"
             THEN PlotEnvs ELSE DiagramEnvs
      [] name = "render_html" -> RenderEnvs
      [] OTHER -> [fail : {"none", "raise"}]

\* ToolRegistry.has
Has(name) == name \in rg_tools

\* ToolRegistry.__len__
RegistryLen == Cardinality(rg_inst)

\* ToolRegistry.get_definitions
GetDefinitions == {ToSchema(p[1]) : p \in rg_inst}

Instances == 1..MaxInstances

\* Registration alone: any tool of the repository, any instance, any order.
RegisterNext == \E name \in RepoTools, inst \in Instances : Register(name, inst)

RegistryNext ==
    \/ \E name \in RegTools : name \notin rg_tools /\ Register(name, 1)
    \/ \E name \in RegTools \cup {"nope"}, args \in EchoArgs : ExecuteUnknown(name, args)
    \/ \E args \in EchoArgs : \E env \in ToolEnvs("echo", args) :
          Execute("echo", args, env)
    \/ \E args \in SearchArgs : \E env \in ToolEnvs("search_references", args) :
          Execute("search_references", args, env)
    \/ \E args \in DiagramArgs \cup PlotArgs :
          \E env \in ToolEnvs("generate_image", args) :
             Execute("generate_image", args, env)
    \/ \E args \in RenderArgs : \E env \in ToolEnvs("render_html", args) :
          Execute("render_html", args, env)

\* ======================================================================
\* Event loop: tool calls in flight as tasks of one asyncio loop, and where
\* each blocking operation of a call runs
\* ======================================================================

Tasks == 1..MaxTasks

VlmProviders == {"GeminiVLM", "ReplicateVLM"}
ImageGenProviders == {"GeminiImageGen", "ReplicateImageGen"}

\* The blocking operation behind a provider's generate.
GenerateOp(provider) == provider \o ".generate"
RunCodeOp == "subprocess.run"

\* asyncio.to_thread at the place of the blocking operation: only the
\* Replicate providers wrap their SDK call; the Gemini providers call
\* client.models.generate_content, and _gen_plot calls _run_code, inline.
Offloaded(op) ==
    op \in {GenerateOp("ReplicateVLM"), GenerateOp("ReplicateImageGen")}

\* The tool calls that wait on a blocking operation.
LoopCalls ==
    [tool : {"search_references", "critique_image", "review_html_visual",
             "extract_table_html"},
     diagram_type : {"-"}, provider : VlmProviders]
        \cup [tool : {"generate_image"}, diagram_type : {"statistical_plot"},
              provider : VlmProviders]
        \cup [tool : {"generate_image"}, diagram_type : {"methodology"},
              provider : ImageGenProviders]

\* The blocking operations of a call, in the order execute reaches them.
Plan(call) ==
    IF call.tool = "generate_image" /\ call.diagram_type = "statistical_plot"
    THEN <<GenerateOp(call.provider), RunCodeOp>>
    ELSE <<GenerateOp(call.provider)>>

NoTask == [state |-> "idle", call |-> [tool |-> None], plan |-> <<>>, pc |-> 1,
           thread |-> "-"]

LoopInit ==
    /\ lp_task = [t \in Tasks |-> NoTask]
    /\ lp_owner = 0

LoopIdle == LoopInit

\* A tool call is dispatched: its coroutine is scheduled on the loop.
Dispatch(t, call) ==
    /\ lp_task[t].state = "idle"
    /\ lp_task' = [lp_task EXCEPT ![t] =
           [state |-> "ready", call |-> call, plan |-> Plan(call), pc |-> 1,
            thread |-> "-"]]
    /\ UNCHANGED lp_owner
    /\ UNCHANGED notLoop

\* The loop, free, runs a ready task.
Resume(t) ==
    /\ lp_owner = 0
    /\ lp_task[t].state = "ready"
    /\ lp_task' = [lp_task EXCEPT ![t].state = "running"]
    /\ lp_owner' = t
    /\ UNCHANGED notLoop

\* The running task reaches its next blocking operation: through
\* asyncio.to_thread the operation goes to a worker thread and the task gives
\* up the loop; called inline it runs on the loop thread, which the task keeps.
BeginOp(t) ==
    /\ lp_owner = t
    /\ lp_task[t].state = "running"
    /\ lp_task[t].pc <= Len(lp_task[t].plan)
    /\ LET op == lp_task[t].plan[lp_task[t].pc]
       IN IF Offloaded(op)
          THEN /\ lp_task' = [lp_task EXCEPT ![t].state = "in_op",
                                             ![t].thread = "worker"]
               /\ lp_owner' = 0
          ELSE /\ lp_task' = [lp_task EXCEPT ![t].state = "in_op",
                                             ![t].thread = "loop"]
               /\ UNCHANGED lp_owner
    /\ UNCHANGED notLoop

\* The blocking operation completes: a task that waited on a worker thread
\* becomes ready again, a task that ran it inline goes on running.
FinishOp(t) ==
    /\ lp_task[t].state = "in_op"
    /\ lp_task' = [lp_task EXCEPT
           ![t].state = IF lp_task[t].thread = "worker" THEN "ready" ELSE "running",
           ![t].thread = "-",
           ![t].pc = lp_task[t].pc + 1]
    /\ UNCHANGED lp_owner
    /\ UNCHANGED notLoop

\* execute returns: the task is done and the loop is free.
Complete(t) ==
    /\ lp_owner = t
    /\ lp_task[t].state = "running"
    /\ lp_task[t].pc > Len(lp_task[t].plan)
    /\ lp_task' = [lp_task EXCEPT ![t].state = "done"]
    /\ lp_owner' = 0
    /\ UNCHANGED notLoop

LoopNext ==
    \/ \E t \in Tasks, call \in LoopCalls : Dispatch(t, call)
    \/ \E t \in Tasks : Resume(t)
    \/ \E t \in Tasks : BeginOp(t)
    \/ \E t \in Tasks : FinishOp(t)
    \/ \E t \in Tasks : Complete(t)

\* ======================================================================
\* GenerateImageTool: execute calls in flight on one instance, interleaved
\* at the await of the provider request
\* ======================================================================

NoCall == [state |-> "idle", diagram_type |-> "-", output_path |-> NoPath,
           provider |-> "none", ticket |-> 0, seen |-> 0, path |-> <<>>,
           result |-> NoResult]

\* The provider a call asks: self._vlm for a plot, self._image_gen for a
\* diagram ("none" when the instance was built without it).
ProviderOf(diagram_type) ==
    IF diagram_type = "statistical_plot" THEN gn_config.vlm ELSE gn_config.image_gen

\* A provider whose generate never yields to the loop.
Inline(provider) == ~Offloaded(GenerateOp(provider))

\* No other call is inside a request that holds the loop thread.
LoopFree(t) ==
    \A u \in Tasks \ {t} :
        ~(gn_task[u].state = "in_generate" /\ Inline(gn_task[u].provider))

\* GenerateImageTool.__init__
GenInit ==
    /\ gn_task = [t \in Tasks |-> NoCall]
    /\ gn_files = {}
    /\ gn_config \in [image_gen : ImageGenProviders \cup {"none"},
                      vlm : VlmProviders \cup {"none"}]

GenIdle ==
    /\ gn_task = [t \in Tasks |-> NoCall]
    /\ gn_files = {}
    /\ gn_config = [image_gen |-> "none", vlm |-> "none"]

\* What the provider request of a call may do, as the environment of
\* _gen_diagram and _gen_plot.
DiagramOutcomes == [image_gen : {"ok", "raise"}, fail : {"none"}]
PlotOutcomes ==
    [vlm : {VlmRaises("RuntimeError"), VlmAnswers(<<FENCE, "python", "x", FENCE>>)},
     run : {Returned(TRUE, <<>>), Returned(FALSE, NoOutputMsg)}, fail : {"none"}]

\* The file a call wrote: the pair of its path and the call, replacing what
\* the file held.
Written(files, path, t) == {f \in files : f[1] # path} \cup {<<path, t>>}

\* execute up to the await of the provider request: the counter is
\* incremented (line 180); without a provider the call returns at once;
\* _gen_plot names its file (line 230) before the request, _gen_diagram after.
GenStart(t, diagram_type, output_path) ==
    /\ gn_task[t].state = "idle"
    /\ LoopFree(t)
    /\ gi_counter' = gi_counter + 1
    /\ UNCHANGED <<gn_files, gn_config>>
    /\ IF ProviderOf(diagram_type) = "none"
       THEN LET env == IF diagram_type = "statistical_plot"
                       THEN [vlm |-> NoVlm, run |-> Returned(TRUE, <<>>), fail |-> "none"]
                       ELSE [image_gen |-> "none", fail |-> "none"]
                o == GenerateImage(diagram_type, output_path, env, fs, gi_counter')
            IN /\ gn_task' = [gn_task EXCEPT ![t] =
                      [NoCall EXCEPT !.state = "done", !.diagram_type = diagram_type,
                                     !.output_path = output_path,
                                     !.ticket = gi_counter', !.result = o.res]]
               /\ fs' = o.fs
       ELSE LET named == diagram_type = "statistical_plot"
                path == IF named THEN GenPath(output_path, "plot", gi_counter') ELSE <<>>
            IN /\ gn_task' = [gn_task EXCEPT ![t] =
                      [NoCall EXCEPT !.state = "in_generate",
                                     !.diagram_type = diagram_type,
                                     !.output_path = output_path,
                                     !.provider = ProviderOf(diagram_type),
                                     !.ticket = gi_counter',
                                     !.seen = IF named THEN gi_counter' ELSE 0,
                                     !.path = path]]
               /\ fs' = IF named THEN MkdirP(fs, Parent(path)) ELSE fs
    /\ UNCHANGED notGen

NamingCounter_OwnTicket(call, counterNow) == call.ticket

\* The counter value _resolve_path puts in the file name of a diagram:
\* self._counter as it is when the provider request has returned (line 269).
NamingCounter(call, counterNow) == counterNow

\* execute from the return of the provider request to its own return:
\* _gen_diagram names its file with the counter as it is now.
GenFinish(t, env) ==
    /\ gn_task[t].state = "in_generate"
    /\ LoopFree(t)
    /\ LET c == gn_task[t]
           plot == c.diagram_type = "statistical_plot"
           o == IF plot THEN GenPlot(c.output_path, env, fs, c.ticket)
                ELSE GenDiagram(c.output_path, env, fs, NamingCounter(c, gi_counter))
           named == plot \/ env.image_gen = "ok"
           path == IF plot THEN c.path
                   ELSE IF named
                   THEN GenPath(c.output_path, "diagram", NamingCounter(c, gi_counter))
                   ELSE <<>>
           saved == Head(o.res.text) \in {"Diagram saved to: ", "Plot saved to: "}
       IN /\ gn_task' = [gn_task EXCEPT ![t].state = "done",
                                       ![t].seen = IF plot THEN c.seen
                                                   ELSE IF named THEN gi_counter ELSE 0,
                                       ![t].path = path,
                                       ![t].result = o.res]
          /\ fs' = o.fs
          /\ gn_files' = IF saved THEN Written(gn_files, path, t) ELSE gn_files
    /\ UNCHANGED <<gi_counter, gn_config>>
    /\ UNCHANGED notGen

GenOutArgs == {NoPath, AbsPath(<<"ws", "out">>)}

GenNext ==
    \/ \E t \in Tasks, d \in {"methodology", "statistical_plot"}, o \in GenOutArgs :
          GenStart(t, d, o)
    \/ \E t \in Tasks, env \in DiagramOutcomes :
          gn_task[t].diagram_type = "methodology" /\ GenFinish(t, env)
    \/ \E t \in Tasks, env \in PlotOutcomes :
          gn_task[t].diagram_type = "statistical_plot" /\ GenFinish(t, env)

\* ======================================================================
\* ReferenceStore: the lazily loaded index of reference examples
\* ======================================================================

\* An entry of the "examples" list of index.json; ok is FALSE for an entry
\* without id, source_context or caption.
Entry(id, category) == [id |-> id, category |-> category, ok |-> TRUE]
BadEntry == [id |-> "", category |-> "", ok |-> FALSE]
Entries == {Entry("ref_1", "flow"), Entry("ref_2", "arch"), BadEntry}

\* index.json on disk: absent, no JSON, or a manifest.
NoIndex == [kind |-> "none", examples |-> <<>>]
MissingIndex == [kind |-> "missing", examples |-> <<>>]
MalformedIndex == [kind |-> "malformed", examples |-> <<>>]
Manifest(entries) == [kind |-> "manifest", examples |-> entries]
Indexes ==
    {MissingIndex, MalformedIndex} \cup {Manifest(m) : m \in SeqsUpTo(Entries, MaxManifest)}

\* The loop of _load over the manifest: the examples appended, up to the
\* first entry that raises KeyError.
RECURSIVE Appended(_)
Appended(items) ==
    IF items = <<>> \/ ~Head(items).ok THEN <<>>
    ELSE <<Head(items)>> \o Appended(Tail(items))

HasBadEntry(items) == \E i \in 1..Len(items) : ~items[i].ok

\* ReferenceStore._load: the cached list, the flag, the reads of the file
\* and the exception that leaves it (None when it returns).
Load(index, examples, loaded) ==
    IF loaded
    THEN [examples |-> examples, loaded |-> TRUE, reads |-> 0, exc |-> None]
    ELSE IF index.kind = "missing"
    THEN [examples |-> examples, loaded |-> TRUE, reads |-> 0, exc |-> None]
    ELSE IF index.kind = "malformed"
    THEN [examples |-> examples, loaded |-> FALSE, reads |-> 1,
          exc |-> "JSONDecodeError"]
    ELSE IF HasBadEntry(index.examples)
    THEN [examples |-> examples \o Appended(index.examples), loaded |-> FALSE,
          reads |-> 1, exc |-> "KeyError"]
    ELSE [examples |-> examples \o index.examples, loaded |-> TRUE, reads |-> 1,
          exc |-> None]

Answer(value, n) == [kind |-> "return", value |-> value, n |-> n]

\* What an accessor answers from the cached list.
AccessorValue(fn, arg, examples) ==
    CASE fn = "get_all" -> Answer(examples, Len(examples))
      [] fn = "get_by_category" ->
             LET Same(e) == e.category = arg
                 found == SelectSeq(examples, Same)
             IN Answer(found, Len(found))
      [] fn = "get_by_id" ->
             LET Same(e) == e.id = arg
                 found == SelectSeq(examples, Same)
             IN IF found = <<>> THEN Answer(<<>>, 0) ELSE Answer(<<Head(found)>>, 1)
      [] OTHER -> Answer(<<>>, Len(examples))

StoreInit ==
    /\ rs_index \in Indexes
    /\ rs_examples = <<>>
    /\ rs_loaded = FALSE
    /\ rs_reads = 0
    /\ rs_calls = 0
    /\ rs_first = NoIndex
    /\ rs_result = NoResult

StoreIdle ==
    /\ rs_index = MissingIndex
    /\ rs_examples = <<>>
    /\ rs_loaded = FALSE
    /\ rs_reads = 0
    /\ rs_calls = 0
    /\ rs_first = NoIndex
    /\ rs_result = NoResult

\* get_all, get_by_category, get_by_id, count: _load, then the answer.
Access(fn, arg) ==
    /\ rs_calls < MaxStoreCalls
    /\ rs_calls' = rs_calls + 1
    /\ rs_first' = IF rs_first = NoIndex THEN rs_index ELSE rs_first
    /\ LET l == Load(rs_index, rs_examples, rs_loaded)
       IN /\ rs_examples' = l.examples
          /\ rs_loaded' = l.loaded
          /\ rs_reads' = rs_reads + l.reads
          /\ rs_result' = IF l.exc # None THEN Exc(l.exc)
                          ELSE AccessorValue(fn, arg, l.examples)
    /\ UNCHANGED rs_index
    /\ UNCHANGED notStore

\* Another program replaces index.json between two calls.
IndexChanges(index) ==
    /\ rs_calls > 0
    /\ index # rs_index
    /\ rs_index' = index
    /\ UNCHANGED <<rs_examples, rs_loaded, rs_reads, rs_calls, rs_first, rs_result>>
    /\ UNCHANGED notStore

StoreNext ==
    \/ \E fn \in {"get_all", "count"} : Access(fn, "")
    \/ \E c \in {"flow", "arch"} : Access("get_by_category", c)
    \/ \E id \in {"ref_1", "ref_9"} : Access("get_by_id", id)
    \/ \E index \in {MissingIndex, Manifest(<<Entry("ref_2", "arch")>>)} :
          IndexChanges(index)


\* ======================================================================
\* CritiqueImageTool.execute: the report built from a response that parsed
\* as a JSON object
\* ======================================================================

\* JSON values: null, strings and arrays (items), numbers and booleans (n).
\* Missing stands for a key the object does not have.
Missing == [t |-> "missing", items |-> <<>>, n |-> 0]
JNull == [t |-> "null", items |-> <<>>, n |-> 0]
JText(q) == [t |-> "string", items |-> q, n |-> 0]
JArray(q) == [t |-> "array", items |-> q, n |-> 0]
JNumber(k) == [t |-> "number", items |-> <<>>, n |-> k]
JBool(b) == [t |-> "boolean", items |-> <<>>, n |-> IF b THEN 1 ELSE 0]

\* dict.get(key, default)
Get(data, key, default) == IF data[key] = Missing THEN default ELSE data[key]

\* The truth value Python gives a parsed JSON value.
Truthy(v) ==
    CASE v.t \in {"string", "array"} -> v.items # <<>>
      [] v.t \in {"number", "boolean"} -> v.n # 0
      [] OTHER -> FALSE

\* json.dumps of a value (the items of an array are strings).
RECURSIVE Quoted(_)
Quoted(q) ==
    IF q = <<>> THEN <<>>
    ELSE <<"'" \o Head(q) \o "'">> \o Quoted(Tail(q))

Dumps(v) ==
    CASE v.t = "null" -> <<"null">>
      [] v.t = "string" -> <<"'">> \o v.items \o <<"'">>
      [] v.t = "array" -> <<"[">> \o Quoted(v.items) \o <<"]">>
      [] v.t = "number" -> <<ToString(v.n)>>
      [] v.t = "boolean" -> <<IF v.n = 1 THEN "true" ELSE "false">>
      [] OTHER -> <<>>

CritiqueReport_AnySuggestion(data) ==
    LET suggestions == Get(data, "critic_suggestions", JArray(<<>>))
        revised == Get(data, "revised_description", JNull)
    IN [kind |-> "return",
        suggestions |-> Dumps(suggestions),
        needs_revision |-> Dumps(JBool(Truthy(suggestions))),
        revised_description |-> Dumps(revised)]

\* Lines 377-386: the report returned for the parsed object data.
CritiqueReport(data) ==
    LET suggestions == Get(data, "critic_suggestions", JArray(<<>>))
        revised == Get(data, "revised_description", JNull)
    IN [kind |-> "return",
        suggestions |-> Dumps(suggestions),
        needs_revision |-> Dumps(JBool(Truthy(suggestions) /\ Truthy(revised))),
        revised_description |-> Dumps(revised)]

\* The objects a provider may answer with.
SuggestionValues ==
    {Missing, JNull, JText(<<>>), JText(<<"s">>), JNumber(0), JNumber(1)}
        \cup {JArray(q) : q \in SeqsUpTo({"a", "b"}, MaxSuggestions)}
RevisedValues ==
    {Missing, JNull, JText(<<>>), JText(<<"r">>), JText(<<"r", "r">>),
     JNumber(0), JBool(TRUE), JBool(FALSE)}
CritiqueData ==
    [critic_suggestions : SuggestionValues, revised_description : RevisedValues]

CritiqueInit ==
    /\ cq_data \in CritiqueData
    /\ cq_result = NoResult

CritiqueIdle ==
    /\ cq_data = [critic_suggestions |-> Missing, revised_description |-> Missing]
    /\ cq_result = NoResult

\* The report is built from the parsed response.
Report ==
    /\ cq_result = NoResult
    /\ cq_result' = CritiqueReport(cq_data)
    /\ UNCHANGED cq_data
    /\ UNCHANGED notCritique

CritiqueNext == Report


\* ======================================================================
\* MatchTemplateTool.execute: the scoring and ranking of the templates of
\* tags.json
\* ======================================================================

\* The keys of req, in the order the dict is built (lines 388-395).
Features ==
    <<"background_color", "has_navigation", "has_hero_section", "title_color",
      "Page density", "image_layout">>

\* _WEIGHT, in hundredths.
Weight(feature) ==
    CASE feature = "background_color" -> 100
      [] feature = "has_hero_section" -> 75
      [] feature = "Page density" -> 85
      [] feature = "image_layout" -> 65
      [] feature = "title_color" -> 60
      [] feature = "has_navigation" -> 70
      [] OTHER -> 0

\* The features of req that count for a template: expected is not None and
\* tag.get(feature) == expected.
Matched_CountsUnspecified(tag, req) ==
    {i \in 1..Len(Features) : tag[Features[i]] = req[Features[i]]}

Matched(tag, req) ==
    {i \in 1..Len(Features) :
        req[Features[i]] # None /\ tag[Features[i]] = req[Features[i]]}

\* score += weight, feature by feature in the order of req: the exact sum
\* in hundredths.
RECURSIVE Accumulate(_, _)
Accumulate(i, matched) ==
    IF i > Len(Features) THEN 0
    ELSE (IF i \in matched THEN Weight(Features[i]) ELSE 0) + Accumulate(i + 1, matched)

\* The rounding of the binary floating-point additions: the sums that come
\* out one unit in the last place below or above the double nearest to the
\* exact sum (as 0.7 + 0.6 = 1.2999999999999998).
RoundedDown ==
    {{2, 4}, {2, 5}, {2, 4, 6}, {2, 5, 6}, {1, 2, 4, 6}, {1, 2, 5, 6},
     {2, 3, 4, 6}, {2, 3, 5, 6}}
RoundedUp == {{1, 2, 3, 4}, {1, 2, 3, 5}, {1, 2, 3, 4, 5}, {1, 2, 3, 4, 5, 6}}

\* The score of a template as a double, in thousandths with the last digit
\* standing for the rounding (2.1999999999999997 is 2199, 2.2 is 2200).
Score(tag, req) ==
    LET matched == Matched(tag, req)
    IN 10 * Accumulate(1, matched)
           + (IF matched \in RoundedUp THEN 1
              ELSE IF matched \in RoundedDown THEN 0 - 1 ELSE 0)

\* scores, in the order of tags.items()
RECURSIVE Scores(_, _, _)
Scores(tags, req, i) ==
    IF i > Len(tags) THEN <<>>
    ELSE <<[name |-> tags[i].name, score |-> Score(tags[i].tag, req)]>>
             \o Scores(tags, req, i + 1)

\* sorted(..., key=score, reverse=True): stable, so an item goes behind
\* every item whose score is not smaller.
RECURSIVE InsertDesc(_, _)
InsertDesc(sorted, x) ==
    IF sorted = <<>> THEN <<x>>
    ELSE IF Head(sorted).score >= x.score
    THEN <<Head(sorted)>> \o InsertDesc(Tail(sorted), x)
    ELSE <<x>> \o sorted

RECURSIVE SortedDesc(_)
SortedDesc(items) ==
    IF items = <<>> THEN <<>>
    ELSE InsertDesc(SortedDesc(SubSeq(items, 1, Len(items) - 1)), items[Len(items)])

\* Lines 397-407: the candidates of the result.
Ranked_Candidates(tags, req, top_k) == FirstN(SortedDesc(Scores(tags, req, 1)), top_k)

\* The value a request asks of a feature, and the other value of its enum.
Wanted(feature) ==
    CASE feature = "background_color" -> "light"
      [] feature = "title_color" -> "pure"
      [] feature = "Page density" -> "spacious"
      [] feature = "image_layout" -> "rotation"
      [] OTHER -> "yes"

Unwanted(feature) ==
    CASE feature = "background_color" -> "dark"
      [] feature = "title_color" -> "colorful"
      [] feature = "Page density" -> "compact"
      [] feature = "image_layout" -> "parallelism"
      [] OTHER -> "no"

FeatureSet == {Features[i] : i \in 1..Len(Features)}

\* The tag of a template that has the wanted value for the features of
\* with, no value for those of without, and the other value for the rest.
TagWith(with, without) ==
    [f \in FeatureSet |->
        IF f \in with THEN Wanted(f)
        ELSE IF f \in without THEN None ELSE Unwanted(f)]

TagProfiles ==
    {TagWith({"has_navigation", "Page density", "image_layout"}, {}),
     TagWith({"has_hero_section", "title_color", "Page density"}, {"background_color"}),
     TagWith(FeatureSet, {}),
     TagWith({"background_color"}, {"title_color", "image_layout"})}

TemplateNames == <<"t1", "t2", "t3", "t4", "t5">>

\* tags.json: templates t1, t2, ... in file order, each with a tag.
TagsFiles ==
    UNION {{[i \in 1..n |-> [name |-> TemplateNames[i], tag |-> p[i]]] :
                p \in [1..n -> TagProfiles]} : n \in 0..MaxTemplates}

Requests == [FeatureSet -> {None}] \cup
            {[f \in FeatureSet |-> IF f \in S THEN Wanted(f) ELSE None] :
                S \in SUBSET FeatureSet}

MatchInit ==
    /\ mt_tags \in TagsFiles
    /\ mt_req \in Requests
    /\ mt_top_k \in 1..MaxTopK
    /\ mt_result = NoResult

MatchIdle ==
    /\ mt_tags = <<>>
    /\ mt_req = [f \in FeatureSet |-> None]
    /\ mt_top_k = 1
    /\ mt_result = NoResult

\* The candidates are computed from the tags read.
Rank ==
    /\ mt_result = NoResult
    /\ mt_result' = [kind |-> "return",
                     candidates |-> Ranked_Candidates(mt_tags, mt_req, mt_top_k)]
    /\ UNCHANGED <<mt_tags, mt_req, mt_top_k>>
    /\ UNCHANGED notMatch

MatchNext == Rank

\* ======================================================================
\* Claims
\* ======================================================================

\* C4: with an allowed root given, _resolve_path never returns a path outside
\* the root directory tree: a target whose canonical form is not the root or
\* a descendant of it (a sibling whose name starts with the root name
\* included) raises PermissionError naming both paths, and a target inside
\* the root is returned in its canonical absolute form.
C4_ResolveStaysInsideRoot ==
    (rp_result # NoResult /\ rp_allowed # NoDir) =>
        LET target == Resolve(rp_path)
            root == Resolve(rp_allowed)
        IN IF IsWithin(target, root)
           THEN rp_result = [kind |-> "ok", path |-> target]
           ELSE /\ rp_result.kind = "PermissionError"
                /\ rp_result.arg = rp_path
                /\ rp_result.allowed_dir = rp_allowed

\* C10: payload extraction never fails: each helper returns a text for every
\* input, and for an input with an opening fence and no closing fence it
\* returns everything after the opening marker, trimmed.
OpenMarker(text, tag) ==
    IF Contains(text, <<FENCE, tag>>) THEN <<FENCE, tag>> ELSE <<FENCE>>

AfterOpening(text, tag) ==
    LET open == OpenMarker(text, tag)
        start == Find(text, open, 1) + Len(open)
    IN Strip(SubSeq(text, start, Len(text)))

Unclosed(text, tag) ==
    /\ Contains(text, <<FENCE>>)
    /\ LET open == OpenMarker(text, tag)
       IN Find(text, <<FENCE>>, Find(text, open, 1) + Len(open)) = 0

TagOf(fn) == IF fn = "paperbanana._extract_python" THEN "python" ELSE "json"

C10_ExtractionNeverFails ==
    ex_fn # None =>
        /\ ex_result.kind = "ok"
        /\ Unclosed(ex_text, TagOf(ex_fn)) =>
               ex_result.text = AfterOpening(ex_text, TagOf(ex_fn))

\* C6: after a _run_code call ends, the temporary source file it created no
\* longer exists, on every exit path (an exception between the creation of
\* the file and the start of the child included).
C6_TempFileRemoved ==
    rc_pc = "done" => rc_calls \notin fs_tmp

\* C7: the outcome of _run_code is determined by its child process: non-zero
\* exit gives failure with a non-empty text carrying the captured stdout and
\* stderr; the timeout gives failure with the fixed timed-out message; zero
\* exit without the output file gives failure with the no-output message;
\* zero exit with the output file gives success with an empty message.
C7_FourOutcomes ==
    (rc_pc = "done" /\ rc_child.state # "none") =>
        /\ rc_result.kind = "return"
        /\ (rc_child.state = "exited" /\ rc_child.returncode # 0) =>
               /\ ~rc_result.success
               /\ rc_result.msg # <<>>
               /\ Contains(rc_result.msg, rc_child.stdout)
               /\ Contains(rc_result.msg, rc_child.stderr)
               /\ rc_result.msg \notin {TimedOutMsg, NoOutputMsg}
        /\ rc_child.state = "killed" =>
               rc_result = Returned(FALSE, TimedOutMsg)
        /\ (rc_child.state = "exited" /\ rc_child.returncode = 0 /\ fs_out = 0) =>
               rc_result = Returned(FALSE, NoOutputMsg)
        /\ (rc_child.state = "exited" /\ rc_child.returncode = 0 /\ fs_out # 0) =>
               rc_result = Returned(TRUE, <<>>)

C7_Witness ==
    /\ rc_pc = "done"
    /\ rc_child.state = "exited"
    /\ rc_child.returncode = 0
    /\ fs_out = 0
    /\ rc_calls = 2

\* C8: every _run_code call ends; a call whose child is running ends by
\* returning an outcome; a child still running when the 60 second limit
\* expires is killed, and the call then returns failure with the timed-out
\* message, also when a file is there at the declared output path.
C8_TimeoutTerminates ==
    /\ (rc_pc # "idle") ~> (rc_pc = "done")
    /\ (rc_pc = "running") ~> (rc_pc = "done" /\ rc_result.kind = "return")
    /\ [](rc_pc = "running" => rc_child.elapsed <= Timeout)
    /\ []((rc_pc = "done" /\ rc_child.elapsed = Timeout) =>
              /\ rc_child.state = "killed"
              /\ rc_result.kind = "return"
              /\ ~rc_result.success
              /\ rc_result.msg = TimedOutMsg)

C8_Witness ==
    /\ rc_pc = "done"
    /\ rc_child.state = "killed"
    /\ rc_child.elapsed = Timeout
    /\ fs_out = rc_calls

\* ----------------------------------------------------------------------
\* C1: ToolRegistry.execute never raises. For a name that is not registered
\* it returns an error text and invokes nothing; when the operation of a
\* registered tool raises, it returns a text that begins with "Error" and
\* that is none of the texts the tool itself returns.
\* ----------------------------------------------------------------------
ReturnedTexts(name, args) ==
    {ToolOp(name, args, e, FsBase, 1).res.text :
        e \in {x \in ToolEnvs(name, args) :
                  ToolOp(name, args, x, FsBase, 1).res.kind = "return"}}

C1_RegistryNeverRaises ==
    rg_call.name # None =>
        /\ rg_result.kind = "return"
        /\ ~rg_call.known =>
              /\ Head(rg_result.text) = "Error"
              /\ ~rg_invoked
        /\ (rg_invoked /\ tl_result.kind = "raise") =>
              /\ Head(rg_result.text) = "Error"
              /\ rg_result.text \notin ReturnedTexts(rg_call.name, rg_call.args)

C1_Witness ==
    /\ rg_call.name = "search_references"
    /\ rg_invoked
    /\ tl_result = Exc("JSONDecodeError")
    /\ rg_result = Ret(<<"Error", ": ", "JSONDecodeError">>)

\* ----------------------------------------------------------------------
\* C2: when the arguments of a call on a registered tool violate the tool's
\* schema (a required property missing, a wrong type, a value outside the
\* enum, or below the minimum or above the maximum), execute returns a text
\* that contains "Invalid parameters" and mentions an offending property,
\* and the operation is not invoked; when they satisfy the schema the
\* operation is invoked and what it returns is returned.
\* ----------------------------------------------------------------------
Conforms(spec, val) ==
    /\ val.t = spec.type \/ (spec.type = "number" /\ val.t = "integer")
    /\ spec.enum = {} \/ val.s \in spec.enum
    /\ ~spec.ranged \/ (spec.lo <= val.n /\ val.n <= spec.hi)

Offending(schema, args) ==
    {p \in DOMAIN schema.props :
        \/ args[p] = Absent /\ \E i \in 1..Len(schema.required) : schema.required[i] = p
        \/ args[p] # Absent /\ ~Conforms(schema.props[p], args[p])}

Mentions(text, word) == \E i \in 1..Len(text) : text[i] = word

C2_Verdict ==
    (rg_call.name # None /\ rg_call.known) =>
        LET bad == Offending(Schema(rg_call.name), rg_call.args)
        IN /\ bad # {} =>
                 /\ rg_result.kind = "return"
                 /\ Mentions(rg_result.text, "Invalid parameters")
                 /\ \E p \in bad : Mentions(rg_result.text, p)
                 /\ ~rg_invoked
           /\ bad = {} =>
                 /\ rg_invoked
                 /\ tl_result.kind = "return" => rg_result = tl_result

\* A call that does not invoke the operation leaves the tools and the file
\* system as they were.
C2_NotInvoked ==
    (rg_calls' # rg_calls /\ ~rg_invoked') => UNCHANGED toolVars

C2_InvalidArgumentsAreRejected == []C2_Verdict /\ [][C2_NotInvoked]_vars

C2_Witness ==
    /\ rg_call.name = "search_references"
    /\ rg_call.known
    /\ rg_call.args.num_examples = IntVal(14)
    /\ rg_result = Ret(<<"Invalid parameters", ": ", "num_examples", "maximum">>)
    /\ ~rg_invoked

\* ----------------------------------------------------------------------
\* C3: no tool operation raises: whatever fails inside a call (loading the
\* reference store from a malformed index, creating a directory, a provider
\* raising, ...), the call returns a text.
\* ----------------------------------------------------------------------
C3_NoToolOperationRaises ==
    tl_call.tool # None => tl_result.kind = "return"

\* ----------------------------------------------------------------------
\* C5: every tool that touches the file system (parse_paper, render_html,
\* match_template, review_html_visual, extract_table_html, generate_image,
\* critique_image) passes each path through the Path Resolver before it
\* reads or writes it.
\* ----------------------------------------------------------------------
FsTools ==
    {"parse_paper", "render_html", "match_template", "review_html_visual",
     "extract_table_html", "generate_image", "critique_image"}

C5_EveryPathGoesThroughTheResolver ==
    tl_call.tool \in FsTools =>
        \A i \in 1..Len(tl_log) : tl_log[i].resolved

\* ----------------------------------------------------------------------
\* C9: every blocking operation of a tool call (the Gemini and Replicate
\* SDK requests, the subprocess run of the plot path) runs on a worker
\* thread while the calling task is suspended, so that the loop stays free
\* for the other tool calls in flight.
\* ----------------------------------------------------------------------
C9_BlockingOperationsLeaveTheLoopFree ==
    \A t \in Tasks :
        lp_task[t].state = "in_op" =>
            /\ lp_task[t].thread = "worker"
            /\ lp_owner # t

\* ----------------------------------------------------------------------
\* C11: for an input whose fences are closed, extraction follows a fixed
\* precedence: the trimmed body of the first fence tagged with the expected
\* kind when there is one (even after an untagged fence); otherwise the
\* trimmed body of the first fence when there is one; otherwise the whole
\* input, trimmed.
\* ----------------------------------------------------------------------
FenceAt(text) == {i \in 1..Len(text) : text[i] = FENCE}
TaggedAt(text, tag) == {i \in FenceAt(text) : i < Len(text) /\ text[i + 1] = tag}
Least(S) == CHOOSE i \in S : \A j \in S : i <= j

\* Every marker that can open the selected block has a marker closing it.
ProperlyClosed(text, tag) ==
    /\ \A i \in TaggedAt(text, tag) : \E j \in FenceAt(text) : j >= i + 2
    /\ (FenceAt(text) # {} /\ TaggedAt(text, tag) = {}) =>
           \E j \in FenceAt(text) : j > Least(FenceAt(text))

\* The trimmed text between position from and the next marker.
BodyFrom(text, from) ==
    Strip(SubSeq(text, from, Least({j \in FenceAt(text) : j >= from}) - 1))

ExpectedPayload(text, tag) ==
    IF TaggedAt(text, tag) # {} THEN BodyFrom(text, Least(TaggedAt(text, tag)) + 2)
    ELSE IF FenceAt(text) # {} THEN BodyFrom(text, Least(FenceAt(text)) + 1)
    ELSE Strip(text)

C11_ExtractionPrecedence ==
    (ex_fn # None /\ ProperlyClosed(ex_text, TagOf(ex_fn))) =>
        ex_result = [kind |-> "ok", text |-> ExpectedPayload(ex_text, TagOf(ex_fn))]

C11_Witness ==
    /\ ex_fn = "paperbanana._extract_json"
    /\ ex_text = <<FENCE, FENCE, FENCE, "json", "x", FENCE>>
    /\ ex_result = [kind |-> "ok", text |-> <<"x">>]

\* ----------------------------------------------------------------------
\* C12: ranking is best-effort: with a provider configured and more than k
\* candidates, any failure on the provider path (the provider raising, a
\* response that is no JSON, JSON that is no object, a JSON object without
\* selected_ids) makes search_references return the first k candidates in
\* store order.
\* ----------------------------------------------------------------------
Ranked ==
    /\ tl_call.tool = "search_references"
    /\ tl_call.env.store = "ok"
    /\ tl_call.env.rank.kind # "none"
    /\ Len(Pool) > tl_call.num_examples

C12_RankingFailureFallsBack ==
    (Ranked /\ tl_call.env.rank.kind \in RankKinds) =>
        /\ tl_result.kind = "return"
        /\ tl_result.selected = SubSeq(Pool, 1, tl_call.num_examples)

\* ----------------------------------------------------------------------
\* C13: without a ranking provider, or with at most k candidates,
\* search_references returns the first min(k, len(pool)) candidates in store
\* order and calls no provider; the selection depends on the pool and k only.
\* ----------------------------------------------------------------------
MinOf(a, b) == IF a < b THEN a ELSE b

C13_FirstKWithoutRanking ==
    (/\ tl_call.tool = "search_references"
     /\ tl_call.env.store = "ok"
     /\ tl_call.env.rank.kind = "none" \/ Len(Pool) <= tl_call.num_examples) =>
        /\ tl_result.kind = "return"
        /\ ~tl_result.asked
        /\ Len(tl_result.selected) = MinOf(tl_call.num_examples, Len(Pool))
        /\ \A i \in 1..Len(tl_result.selected) : tl_result.selected[i] = Pool[i]

C13_Witness ==
    /\ tl_call.tool = "search_references"
    /\ tl_call.env.store = "ok"
    /\ tl_call.env.rank.kind = "ids"
    /\ tl_call.num_examples = 5
    /\ tl_result.selected = Pool
    /\ ~tl_result.asked

\* ----------------------------------------------------------------------
\* C14: for a well-formed selection of ids over a pool larger than k,
\* search_references returns the candidates with those ids in the order the
\* provider gave them, drops the ids of no candidate, and returns at most k.
\* ----------------------------------------------------------------------
IsCandidate(id) == \E i \in 1..Len(Pool) : Pool[i] = id

C14_RankingOrderIsKept ==
    (Ranked /\ tl_call.env.rank.kind = "ids") =>
        LET known == SelectSeq(tl_call.env.rank.ids, IsCandidate)
        IN /\ tl_result.kind = "return"
           /\ tl_result.asked
           /\ Len(tl_result.selected) = MinOf(tl_call.num_examples, Len(known))
           /\ \A i \in 1..Len(tl_result.selected) : tl_result.selected[i] = known[i]

C14_Witness ==
    /\ Ranked
    /\ tl_call.num_examples = 2
    /\ tl_call.env.rank = [kind |-> "ids", ids |-> <<"ref_3", "ref_1", "ref_9">>]
    /\ tl_result.selected = <<"ref_3", "ref_1">>

\* ----------------------------------------------------------------------
\* C15: when the answer of the vision provider cannot be read as the
\* expected JSON object (prose, malformed JSON, an unterminated fence, JSON
\* that is no object), critique_image and review_html_visual return a JSON
\* result whose suggestions list holds the raw text as its single item
\* (needs_revision false for critique_image), not an error text.
\* ----------------------------------------------------------------------
\* The call got as far as the provider, and the provider answered.
Answered ==
    /\ tl_call.tool \in {"critique_image", "review_html_visual"}
    /\ tl_call.env.fail = "none"
    /\ tl_call.env.vlm.kind = "text"
    /\ \E i \in 1..Len(tl_log) : tl_log[i].op = "read"

\* The payload of an answer: the fenced body, to the end of the text when
\* the fence is not closed.
PayloadOf(resp) ==
    IF Unclosed(resp, "json") THEN AfterOpening(resp, "json")
    ELSE ExpectedPayload(resp, "json")

C15_ParseFailureIsRecovered ==
    (Answered /\ JsonLoads(PayloadOf(tl_call.env.vlm.text)) # "object") =>
        /\ tl_result.kind = "return"
        /\ Len(tl_result.text) >= 3
        /\ tl_result.text[1] = "{"
        /\ tl_result.text[2] \in {"suggestions", "critic_suggestions"}
        /\ tl_result.text[3] \in {"resp", "payload"}
        /\ tl_call.tool = "critique_image" => tl_result.text[4] = "needs_revision: false"

\* ----------------------------------------------------------------------
\* C16: the start of the result text tells failure from success: every
\* failure result a tool returns (missing dependency, permission denied,
\* input not found, provider not configured, execution failure) begins with
\* "Error", and no success result does.
\* ----------------------------------------------------------------------
VisionTools == {"review_html_visual", "extract_table_html", "critique_image"}

MissingDependency ==
    \/ tl_call.tool = "parse_paper" /\ tl_call.env.fail \in {"fitz", "pymupdf4llm"}
    \/ tl_call.tool = "render_html" /\ tl_call.env.fail = "playwright"
    \/ tl_call.tool \in VisionTools /\ tl_call.env.fail = "pillow"

NotConfigured ==
    \/ tl_call.tool \in VisionTools /\ tl_call.env.vlm.kind = "none"
    \/ tl_call.tool = "search_references" /\ tl_call.env.store = "none"
    \/ /\ tl_call.tool = "generate_image"
       /\ IF tl_call.diagram_type = "statistical_plot"
          THEN tl_call.env.vlm.kind = "none"
          ELSE tl_call.env.image_gen = "none"

InputNotFound ==
    \/ tl_call.tool = "parse_paper" /\ Resolve(tl_call.pdf_path) \notin FsBase
    \/ tl_call.tool = "render_html" /\ Resolve(tl_call.html_path) \notin FsBase
    \/ tl_call.tool = "critique_image" /\ OsPath(tl_call.image_path) \notin FsBase

\* The resolver refused the input path.
PermissionDenied ==
    /\ tl_call.tool \in {"parse_paper", "render_html"}
    /\ LET arg == IF tl_call.tool = "parse_paper" THEN tl_call.pdf_path
                  ELSE tl_call.html_path
       IN ResolvePath(arg, tl_call.env.allowed).kind = "PermissionError"

ExecutionFailure ==
    \/ /\ tl_call.tool = "generate_image"
       /\ tl_call.diagram_type = "statistical_plot"
       /\ tl_call.env.vlm.kind # "none"
       /\ tl_call.env.run.kind = "return" /\ ~tl_call.env.run.success
    \/ /\ tl_call.tool = "generate_image"
       /\ tl_call.diagram_type = "methodology"
       /\ tl_call.env.image_gen = "raise"

\* Calls that meet no obstacle at all.
CleanCall ==
    \/ /\ tl_call.tool = "generate_image"
       /\ tl_call.diagram_type = "methodology"
       /\ tl_call.env = [image_gen |-> "ok", fail |-> "none"]
    \/ /\ tl_call.tool = "search_references"
       /\ tl_call.env.store = "ok"
    \/ /\ tl_call.tool = "parse_paper"
       /\ tl_call.env = [allowed |-> NoDir, fail |-> "none"]
       /\ tl_call.pdf_path = AbsPath(<<"ws", "p.pdf">>)

C16_ErrorMarkerFramesFailures ==
    (tl_call.tool # None /\ tl_result.kind = "return") =>
        /\ (\/ MissingDependency \/ NotConfigured \/ InputNotFound
            \/ PermissionDenied \/ ExecutionFailure) =>
               Head(tl_result.text) = "Error"
        /\ CleanCall => Head(tl_result.text) # "Error"

\* ----------------------------------------------------------------------
\* C17: the naming counter of a GenerateImageTool instance is not safe
\* under concurrent calls: two methodology calls without an explicit
\* output_path that are in flight together are given the same generated
\* path, and one image overwrites the other.
\* ----------------------------------------------------------------------
AutoNamed(t) ==
    /\ gn_task[t].state = "done"
    /\ gn_task[t].diagram_type = "methodology"
    /\ gn_task[t].output_path = NoPath
    /\ gn_task[t].path # <<>>

\* Each of the two calls had incremented the counter before the other named
\* its file, and no call incremented it between the two namings.
Overlapped(t, u) ==
    /\ gn_task[t].ticket <= gn_task[u].seen
    /\ gn_task[u].ticket <= gn_task[t].seen
    /\ gn_task[t].seen = gn_task[u].seen

Saved(t) == Head(gn_task[t].result.text) = "Diagram saved to: "

C17_ConcurrentCallsShareAPath ==
    \A t \in Tasks, u \in Tasks :
        (t # u /\ AutoNamed(t) /\ AutoNamed(u) /\ Overlapped(t, u)) =>
            /\ gn_task[t].path = gn_task[u].path
            /\ (Saved(t) /\ Saved(u)) =>
                   Cardinality({f \in gn_files : f[1] = gn_task[t].path}) = 1

C17_Witness ==
    /\ AutoNamed(1) /\ AutoNamed(2)
    /\ Saved(1) /\ Saved(2)
    /\ gn_task[1].ticket = 1 /\ gn_task[2].ticket = 2
    /\ gn_task[1].path = AutoPath("diagram", 2)
    /\ gn_task[2].path = AutoPath("diagram", 2)
    /\ gn_files = {<<AutoPath("diagram", 2), 1>>}

\* ----------------------------------------------------------------------
\* C18: a ReferenceStore reads its index at most once: the first accessor
\* call loads it and later calls answer from the cached list, which the
\* store no longer modifies; an index missing at the first access gives an
\* empty answer without raising, and later answers stay empty.
\* ----------------------------------------------------------------------
C18_IndexLoadedOnce ==
    /\ rs_reads <= 1
    /\ (rs_calls > 0 /\ rs_reads = 0) => rs_examples = <<>>
    /\ rs_first.kind = "missing" =>
           /\ rs_result.kind = "return"
           /\ rs_result.value = <<>>
           /\ rs_examples = <<>>


\* C19: the schema definition of every tool the repository defines is
\* well formed: its type is "function", its function carries the tool's
\* name and a description, its parameters are of type "object", and every
\* name its required list holds is a declared property.
WellFormed(d) ==
    /\ d.type = "function"
    /\ d.function.name \in RepoTools
    /\ d.function.description # ""
    /\ d.function.parameters.type = "object"
    /\ \A i \in 1..Len(d.function.parameters.required) :
          d.function.parameters.required[i] \in DOMAIN d.function.parameters.properties

C19_SchemasAreWellFormed ==
    /\ \A d \in GetDefinitions : WellFormed(d)
    /\ \A name \in rg_tools : \E d \in GetDefinitions : d.function.name = name

C19_Witness ==
    /\ rg_tools = RepoTools
    /\ \A name \in RepoTools : WellFormed(ToSchema(name))

\* C20: tool names are unique in a registry: registering a tool under a
\* fresh name adds exactly that tool (has(name) holds, the length and the
\* number of definitions grow to the number registered), and registering
\* under a name already registered is rejected with an error and leaves
\* the earlier tool in place.
C20_OneToolPerName ==
    /\ \A p \in rg_inst : \A q \in rg_inst : p[1] = q[1] => p = q
    /\ \A name \in RepoTools : Has(name) <=> \E p \in rg_inst : p[1] = name
    /\ RegistryLen = Cardinality(rg_tools)
    /\ Cardinality(GetDefinitions) = RegistryLen

C20_RegisterStep ==
    \/ /\ rg_reg' = "ok"
       /\ \E name \in RepoTools \ rg_tools : \E inst \in Instances :
             /\ rg_tools' = rg_tools \cup {name}
             /\ rg_inst' = rg_inst \cup {<<name, inst>>}
    \/ /\ rg_reg' = "error"
       /\ rg_tools # {}
       /\ UNCHANGED <<rg_tools, rg_inst>>

C20_NamesAreUnique ==
    /\ []C20_OneToolPerName
    /\ [][C20_RegisterStep]_<<rg_tools, rg_inst, rg_reg>>

C20_Witness ==
    /\ rg_reg = "error"
    /\ Cardinality(rg_inst) >= 2
    /\ \A name \in rg_tools : Has(name)


\* ----------------------------------------------------------------------
\* C21: a call whose capability is not configured (no reference store for
\* search_references, no image generator for a methodology diagram, no VLM
\* for a statistical plot, critique_image, review_html_visual or
\* extract_table_html) returns a text that starts with "Error" and names
\* the missing provider; it does so before any input path is checked, sends
\* no request to a provider and creates no file or directory.
\* ----------------------------------------------------------------------
MissingProvider ==
    IF tl_call.tool = "search_references" THEN "store"
    ELSE IF tl_call.tool = "generate_image" /\ tl_call.diagram_type # "statistical_plot"
    THEN "image_gen"
    ELSE "vlm"

\* The texts that name a provider.
Naming(provider) ==
    CASE provider = "store" -> {": Reference store not configured."}
      [] provider = "image_gen" -> {": Image generation provider not configured."}
      [] OTHER -> {": VLM provider not configured.",
                   ": VLM provider not configured for plot code generation.",
                   ": No VLM provider configured for visual review.",
                   ": No VLM provider configured for table extraction."}

C21_Reported ==
    (tl_call.tool # None /\ NotConfigured) =>
        /\ tl_result.kind = "return"
        /\ Len(tl_result.text) = 2
        /\ tl_result.text[1] = "Error"
        /\ tl_result.text[2] \in Naming(MissingProvider)
        /\ tl_log = <<>>

C21_NothingCreated ==
    (tl_calls' = tl_calls + 1 /\ NotConfigured') => fs' = fs

C21_NotConfiguredIsReportedFirst ==
    /\ []C21_Reported
    /\ [][C21_NothingCreated]_vars

C21_Witness ==
    /\ tl_call.tool = "generate_image"
    /\ tl_call.diagram_type = "statistical_plot"
    /\ tl_call.env.vlm.kind = "none"
    /\ tl_call.output_path = AbsPath(<<"ws", "out">>)
    /\ tl_result = Ret(<<"Error", ": VLM provider not configured for plot code generation.">>)
    /\ tl_log = <<>>


\* ----------------------------------------------------------------------
\* C22: the counter of a GenerateImageTool instance equals the number of
\* execute calls made on it, whatever their outcomes; a call without an
\* explicit output_path is given <output_dir>/<purpose>_<sequence>.png with
\* purpose "diagram" or "plot" and sequence a value of the counter, and a
\* call with an explicit output_path uses exactly that path.
\* ----------------------------------------------------------------------
Started == {t \in Tasks : gn_task[t].state # "idle"}

Purpose(t) == IF gn_task[t].diagram_type = "statistical_plot" THEN "plot" ELSE "diagram"

SavedText(t) ==
    /\ gn_task[t].state = "done"
    /\ gn_task[t].result.kind = "return"
    /\ Head(gn_task[t].result.text) \in {"Diagram saved to: ", "Plot saved to: "}

C22_CounterCountsCallsAndNamesFiles ==
    /\ gi_counter = Cardinality(Started)
    /\ \A t \in Tasks :
          gn_task[t].path # <<>> =>
              /\ gn_task[t].output_path # NoPath =>
                     gn_task[t].path = gn_task[t].output_path.segs
              /\ gn_task[t].output_path = NoPath =>
                     \E k \in gn_task[t].ticket..gi_counter :
                         gn_task[t].path =
                             Cwd \o <<"outputs", Purpose(t) \o "_" \o ToString(k) \o ".png">>
              /\ SavedText(t) => gn_task[t].path \in fs

C22_Witness ==
    \E t \in Tasks, u \in Tasks :
        /\ gi_counter = 2
        /\ SavedText(t) /\ SavedText(u)
        /\ gn_task[t].output_path = AbsPath(<<"ws", "out">>)
        /\ gn_task[t].path = <<"ws", "out">>
        /\ gn_task[u].output_path = NoPath
        /\ gn_task[u].diagram_type = "statistical_plot"
        /\ gn_task[u].path = Cwd \o <<"outputs", "plot_2.png">>


\* ----------------------------------------------------------------------
\* C23: for a response that parses as a JSON object, critique_image reports
\* needs_revision as true exactly when critic_suggestions is non-empty and
\* revised_description is non-empty, false otherwise, and the suggestions
\* and the revised description are passed through unchanged.
\* ----------------------------------------------------------------------
\* The values that are empty or non-empty: absent keys, null, strings, arrays.
Sized(v) == v.t \in {"missing", "null", "string", "array"}
NonEmpty(v) == v.t \in {"string", "array"} /\ Len(v.items) > 0

C23_NeedsRevisionIffBothPresent ==
    cq_result # NoResult =>
        LET s == cq_data.critic_suggestions
            r == cq_data.revised_description
        IN /\ cq_result.needs_revision \in {<<"true">>, <<"false">>}
           /\ (Sized(s) /\ Sized(r)) =>
                  (cq_result.needs_revision = <<"true">> <=> (NonEmpty(s) /\ NonEmpty(r)))
           /\ cq_result.suggestions = (IF s = Missing THEN <<"[", "]">> ELSE Dumps(s))
           /\ cq_result.revised_description = (IF r = Missing THEN <<"null">> ELSE Dumps(r))

C23_Witness ==
    /\ cq_data = [critic_suggestions |-> JArray(<<"a", "b">>),
                  revised_description |-> JText(<<"r">>)]
    /\ cq_result = [kind |-> "return",
                    suggestions |-> <<"[", "'a'", "'b'", "]">>,
                    needs_revision |-> <<"true">>,
                    revised_description |-> <<"'", "r", "'">>]


C25_SuccessMeansThisRunWrote ==
    (rc_child.state = "exited" /\ rc_result.kind = "return" /\ rc_result.success) =>
        fs_out = rc_calls


\* ----------------------------------------------------------------------
\* C26: after any sequence of ReferenceStore accessor calls, including calls
\* in which loading raised an error partway through the manifest, the cached
\* example list contains at most one example per manifest entry, in
\* manifest order.
\* ----------------------------------------------------------------------
\* The manifest on disk is the one the first accessor call read.
SameManifest == rs_first.kind = "manifest" /\ rs_index = rs_first

C26_OneExamplePerManifestEntry ==
    SameManifest => StartsWith(rs_index.examples, rs_examples)


\* ----------------------------------------------------------------------
\* C27: the list of examples search_references selects never contains the
\* same candidate twice and contains only members of the candidate pool,
\* for every provider response, including one that repeats an id or lists
\* more than k ids.
\* ----------------------------------------------------------------------
C27_SelectionHasNoDuplicates ==
    (/\ tl_call.tool = "search_references"
     /\ tl_result.kind = "return"
     /\ Head(tl_result.text) = "Found ") =>
        /\ \A i \in 1..Len(tl_result.selected) : IsCandidate(tl_result.selected[i])
        /\ \A i \in 1..Len(tl_result.selected) :
              \A j \in 1..Len(tl_result.selected) :
                  tl_result.selected[i] = tl_result.selected[j] => i = j


\* ----------------------------------------------------------------------
\* C28: when the calls on one GenerateImageTool instance are made one after
\* another and none gives an explicit output_path, the generated path of a
\* later call never equals the generated path of an earlier call.
\* ----------------------------------------------------------------------
\* The call was given a generated path.
Generated(t) ==
    /\ gn_task[t].state = "done"
    /\ gn_task[t].output_path = NoPath
    /\ gn_task[t].path # <<>>

\* Call t had named its file before call u began.
Before(t, u) == gn_task[t].seen < gn_task[u].ticket

C28_SequentialPathsDiffer ==
    \A t \in Tasks, u \in Tasks :
        (Generated(t) /\ Generated(u) /\ Before(t, u)) =>
            gn_task[t].path # gn_task[u].path

C28_Witness ==
    /\ Generated(1) /\ Generated(2) /\ Before(1, 2)
    /\ gn_task[1].diagram_type = "methodology"
    /\ gn_task[2].diagram_type = "methodology"
    /\ gn_task[1].path = Cwd \o <<"outputs", "diagram_1.png">>
    /\ gn_task[2].path = Cwd \o <<"outputs", "diagram_2.png">>
    /\ gn_files = {<<gn_task[1].path, 1>>, <<gn_task[2].path, 2>>}


\* ----------------------------------------------------------------------
\* C29: a parse_paper or render_html call whose input path is rejected
\* (outside the allowed directory, file not found, or for parse_paper a file
\* without the .pdf suffix) returns its error text before any output
\* directory or file is created: the file system is unchanged.
\* ----------------------------------------------------------------------
InputOf(call) == IF call.tool = "parse_paper" THEN call.pdf_path ELSE call.html_path

\* The call's input path is refused by the resolver, names no file, or (for
\* parse_paper) names a file that is no PDF.
Rejected(call, fsNow) ==
    /\ call.tool \in {"parse_paper", "render_html"}
    /\ LET r == ResolvePath(InputOf(call), call.env.allowed)
       IN \/ r.kind = "PermissionError"
          \/ r.path \notin fsNow
          \/ call.tool = "parse_paper" /\ ~IsPdf(r.path)

ErrorText(text) ==
    \/ text[1] = "Error"
    \/ text[1] = "{" /\ text[2] = "status: error"

C29_RejectedStep ==
    (tl_calls' = tl_calls + 1 /\ Rejected(tl_call', fs)) =>
        /\ fs' = fs
        /\ tl_result'.kind = "return"
        /\ ErrorText(tl_result'.text)
        /\ \A i \in 1..Len(tl_log') : tl_log'[i].op \notin {"mkdir", "write"}

C29_RejectedInputLeavesNoTrace == [][C29_RejectedStep]_vars

C29_Witness ==
    /\ tl_call.tool = "parse_paper"
    /\ tl_call.pdf_path = AbsPath(<<"ws", "f">>)
    /\ tl_call.output_dir = AbsPath(<<"ws", "out">>)
    /\ tl_call.env = [allowed |-> AbsPath(<<"ws">>), fail |-> "none"]
    /\ tl_result = Ret(<<"Error", ": Expected a PDF file, got: ", "pdf.name">>)
    /\ tl_log = <<Acc("exists", <<"ws", "f">>, TRUE)>>
    /\ <<"ws", "out">> \notin fs


\* C30: match_template returns at most top_k candidates, in order of
\* non-increasing score, templates of equal score in their tags.json order;
\* a template's score is the sum of the weights of the requested features
\* whose tag value equals the requested value, and a feature the request
\* leaves unspecified adds nothing to any score.
Position(name) == CHOOSE i \in 1..Len(mt_tags) : mt_tags[i].name = name

Agreeing(tag) ==
    {f \in FeatureSet : mt_req[f] # None /\ tag[f] # None /\ tag[f] = mt_req[f]}

RECURSIVE WeightSum(_)
WeightSum(S) ==
    IF S = {} THEN 0
    ELSE LET f == CHOOSE g \in S : TRUE IN Weight(f) + WeightSum(S \ {f})

\* The score is the sum of the weights, to the rounding of the last place
\* of the double.
IsSumOf(score, S) ==
    /\ score - 10 * WeightSum(S) \in {0 - 1, 0, 1}
    /\ (\A f \in S : Weight(f) > 0)

C30_CandidatesAreRankedByWeightedMatches ==
    mt_result.kind = "return" =>
        LET c == mt_result.candidates
        IN /\ Len(c) <= mt_top_k
           /\ Len(c) <= Len(mt_tags)
           /\ Len(c) = (IF mt_top_k < Len(mt_tags) THEN mt_top_k ELSE Len(mt_tags))
           /\ \A i \in 1..Len(c) : \E j \in 1..Len(mt_tags) : mt_tags[j].name = c[i].name
           /\ \A i, j \in 1..Len(c) :
                  i < j =>
                      /\ c[i].score >= c[j].score
                      /\ c[i].name # c[j].name
                      /\ (c[i].score = c[j].score => Position(c[i].name) < Position(c[j].name))
           /\ \A i \in 1..Len(c) : IsSumOf(c[i].score, Agreeing(mt_tags[Position(c[i].name)].tag))
           \* no template left out outranks a candidate
           /\ \A j \in 1..Len(mt_tags) :
                  (\A i \in 1..Len(c) : c[i].name # mt_tags[j].name) =>
                      \A i \in 1..Len(c) :
                          \/ c[i].score > Score(mt_tags[j].tag, mt_req)
                          \/ /\ c[i].score = Score(mt_tags[j].tag, mt_req)
                             /\ Position(c[i].name) < j

\* Two templates tie behind a better one that comes later in tags.json, a
\* feature the request leaves out is one a template has no value for, and
\* top_k cuts the list.
C30_Witness ==
    /\ mt_result.kind = "return"
    /\ Len(mt_result.candidates) = 2
    /\ Len(mt_tags) = 3
    /\ mt_result.candidates[1].name = "t3"
    /\ mt_result.candidates[2].name = "t1"
    /\ mt_result.candidates[2].score = Score(mt_tags[2].tag, mt_req)
    /\ mt_result.candidates[2].score > 0
    /\ \E f \in FeatureSet : mt_req[f] = None /\ mt_tags[1].tag[f] = None

\* ======================================================================
\* Specifications
\* ======================================================================
InitPath == PathInit /\ ExtractIdle /\ RunIdle /\ ToolsIdle /\ RegistryIdle /\ LoopIdle /\ GenIdle /\ StoreIdle /\ CritiqueIdle /\ MatchIdle
InitExtract == ExtractInit /\ PathIdle /\ RunIdle /\ ToolsIdle /\ RegistryIdle /\ LoopIdle /\ GenIdle /\ StoreIdle /\ CritiqueIdle /\ MatchIdle
InitRun == RunInit /\ PathIdle /\ ExtractIdle /\ ToolsIdle /\ RegistryIdle /\ LoopIdle /\ GenIdle /\ StoreIdle /\ CritiqueIdle /\ MatchIdle
InitTools == ToolsInit /\ PathIdle /\ ExtractIdle /\ RunIdle /\ RegistryIdle /\ LoopIdle /\ GenIdle /\ StoreIdle /\ CritiqueIdle /\ MatchIdle
Init == RegistryInit /\ ToolsInit /\ PathIdle /\ ExtractIdle /\ RunIdle /\ LoopIdle /\ GenIdle /\ StoreIdle /\ CritiqueIdle /\ MatchIdle
InitGen ==
    /\ GenInit /\ gi_counter = 0 /\ fs = FsBase
    /\ tl_calls = 0 /\ tl_call = [tool |-> None] /\ tl_result = NoResult /\ tl_log = <<>>
    /\ PathIdle /\ ExtractIdle /\ RunIdle /\ RegistryIdle /\ LoopIdle /\ StoreIdle /\ CritiqueIdle /\ MatchIdle
InitStore ==
    /\ StoreInit /\ PathIdle /\ ExtractIdle /\ RunIdle /\ ToolsIdle /\ RegistryIdle
    /\ LoopIdle /\ GenIdle /\ CritiqueIdle /\ MatchIdle
InitLoop == LoopInit /\ PathIdle /\ ExtractIdle /\ RunIdle /\ ToolsIdle /\ RegistryIdle /\ GenIdle /\ StoreIdle /\ CritiqueIdle /\ MatchIdle

SpecPath == InitPath /\ [][PathNext]_vars
SpecExtract == InitExtract /\ [][ExtractNext]_vars
SpecRun == InitRun /\ [][RunNext]_vars
Spec == Init /\ [][RegistryNext]_vars

InitRegister ==
    /\ RegistryInit /\ ToolsIdle /\ PathIdle /\ ExtractIdle /\ RunIdle /\ LoopIdle
    /\ GenIdle /\ StoreIdle /\ CritiqueIdle /\ MatchIdle

SpecRegister == InitRegister /\ [][RegisterNext]_vars
SpecGen == InitGen /\ [][GenNext]_vars
SpecStore == InitStore /\ [][StoreNext]_vars
SpecLoop == InitLoop /\ [][LoopNext]_vars
SpecTools == InitTools /\ [][ToolsNext]_vars
SpecRunFair == InitRun /\ [][RunNext]_vars /\ RunFairness

InitCritique ==
    /\ CritiqueInit /\ ExtractIdle /\ GenIdle /\ LoopIdle /\ PathIdle /\ RegistryIdle /\ RunIdle /\ StoreIdle /\ ToolsIdle
    /\ MatchIdle
SpecCritique == InitCritique /\ [][CritiqueNext]_vars
InitMatch ==
    /\ MatchInit /\ CritiqueIdle /\ ExtractIdle /\ GenIdle /\ LoopIdle /\ PathIdle /\ RegistryIdle /\ RunIdle /\ StoreIdle /\ ToolsIdle
SpecMatch == InitMatch /\ [][MatchNext]_vars
====
